---- MODULE Spec2Model ----
(***************************************************************************)
(* Mesh normal computation of blenkernel/intern/mesh_normals.cc:           *)
(*   - add_v3_v3_atomic: the spin-locked accumulation into a vertex normal *)
(*   - BKE_mesh_vertex_normals_ensure / BKE_mesh_poly_normals_ensure: the  *)
(*     lazily computed normal caches behind the dirty flags and the mutex  *)
(*   - mesh_edges_sharp_tag and its two callers: the edge classification   *)
(* Indices are 0-based as in the source (functions over 0..n-1).           *)
(***************************************************************************)
EXTENDS Integers, Sequences, FiniteSets, TLC

\* ------------------------------------------------------------------ bounds
\* Worker threads of the parallel_for / concurrent callers of the ensure functions.
NThreads == 2
\* Calls of add_v3_v3_atomic made in one run.
MaxCalls == 3
\* Mesh mutations (each followed by BKE_mesh_normals_tag_dirty) in one run.
MaxGen == 2

Threads == 1..NThreads

VARIABLES
  \* add_v3_v3_atomic
  r,              \* the shared accumulator float r[3]
  apc,            \* per thread: position inside add_v3_v3_atomic
  a_arg,          \* per thread: the argument a[3]
  virtual_lock,   \* per thread: the local virtual_lock
  reg,            \* per thread: the value loaded by a non-atomic r[i] += a[i]
  added,          \* history: component-wise sum of every a passed so far
  ncalls,         \* history: number of calls made
  contended,      \* history: some compare-and-swap found the vector locked by another thread
  \* Mesh runtime normal caches
  totvert, totpoly,
  vert_normals_dirty, poly_normals_dirty,
  vert_normals, poly_normals,     \* NULLPTR, or the mesh generation of the last completed computation
  vert_writing, poly_writing,     \* the array is being rewritten by a computation
  normals_mutex,                  \* 0 (free) or the owning thread
  epc,            \* per thread: position inside an ensure call
  \* The next four are per thread and describe its call in progress or, when it is
  \* idle, the last call it made since the last tag_dirty.
  ecall,          \* "none", "vert" or "poly"
  eret,           \* what the call returned: <<array value, being written>>
  ecomputed,      \* the call ran a computation
  eprev,          \* lastOp when the call started
  meshGen,        \* history: generation of the mesh data (bumped by each mutation)
  vertComputes, polyComputes,     \* history: computations started since the last tag_dirty
  lastOp,         \* history: the last completed operation: <<kind, returned>>
  \* Edge classification (mesh_edges_sharp_tag and its callers)
  spc,            \* position of the call in progress
  entry,          \* "loop_split" or "from_angle": the function called
  polys,          \* MPoly: [loopstart, totloop, smooth (ME_SMOOTH)]
  corner_verts, corner_edges,
  edges,          \* MEdge: [v1, v2, sharp (ME_SHARP)]
  polynors, common_vert_normals,   \* common_data.polynors, common_data.vert_normals
  loop_to_poly,
  split_angle,    \* in degrees
  has_clnors,     \* clnors_data != nullptr
  check_angle, do_sharp_edges_tag,
  edge_to_loops,  \* int (*edge_to_loops)[2]
  sharp_edges,    \* BitVector sharp_edges
  loopnors,
  ml_curr_index,
  edges_in,       \* history: the edges as passed to the call
  \* Loop-normal computation (loop_split_generator, its tasks, the loop-normal spaces)
  positions,
  lnors_spacearr, \* common_data.lnors_spacearr != nullptr
  lspacearr,      \* lnors_spacearr->lspacearr: per corner, NULLPTR or the index of its space
  lnor_spaces,    \* the MLoopNorSpace records created so far (spaces_num is their number)
  clnors_data,    \* per corner the code short[2]; empty without custom normals
  pool,           \* the TaskPool pointer is not null
  skip_loops,     \* BitVector skip_loops of the generator
  data_buff,      \* the block the generator is filling; empty when not allocated
  data_idx,
  pushed,         \* the blocks handed to BLI_task_pool_push, in order
  ran,            \* the pushed blocks a pool thread has run
  tasks,          \* history: the tasks as the generator filled them in, in order
  executed,       \* history: the runs of loop_split_worker_do
  cyclic_found,   \* history: corners for which the cyclic-fan check returned true
  sequential,     \* reference: loop_split_generator(nullptr, ...) on the same input, in step with the scan
  \* Custom normal codec (BKE_lnor_space_define and the two conversions)
  cpc,            \* position: which function is called next
  space_args,     \* the lnor, vec_ref and vec_other given to BKE_lnor_space_define
  codec_space,    \* the MLoopNorSpace
  codec_custom_lnor,    \* the normal to encode
  codec_r_clnor_data,   \* the code BKE_lnor_space_custom_normal_to_data returned
  codec_clnor_data,     \* the code given to BKE_lnor_space_custom_data_to_normal
  codec_r_custom_lnor,  \* the normal it returned
  \* Custom normal reconciliation (mesh_normals_loop_custom_set) and the arguments of
  \* BKE_mesh_normals_loop_split it fixes
  use_split_normals,
  rpc,            \* position inside mesh_normals_loop_custom_set
  use_vertices,
  r_custom_loopnors,    \* the target normals, per corner or per vertex
  r_clnors_data,        \* the codes written for the caller
  done_loops,           \* BitVector done_loops
  custom_in,      \* history: the target normals as passed in
  lnors_first,    \* history: the loop normals after the first BKE_mesh_normals_loop_split
  marked,         \* history: the edges given ME_SHARP and the comparison that caused it
  split_calls,    \* history: calls of BKE_mesh_normals_loop_split made
  writes,         \* history: per corner, the number of times its code was written
  \* calculate_normals_poly_and_vert
  calc_phase,           \* the block of the function being executed
  calc_mesh,            \* positions, polys and corner_verts
  calc_zeroed,          \* vertices cleared by the memset so far
  calc_vert_normals,    \* MutableSpan<float3> vert_normals
  calc_poly_normals,    \* MutableSpan<float3> poly_normals
  calc_taken,           \* polygon ranges handed to a worker
  calc_thread,          \* per worker: position, contributions left, virtual_lock
  calc_added,           \* history: completed add_v3_v3_atomic calls
  calc_observed,        \* history: per vertex, the sum its normalization read
  calc_contended        \* history: some worker found an accumulator locked

atomicVars == <<r, apc, a_arg, virtual_lock, reg, added, ncalls, contended>>
ensureVars == <<totvert, totpoly, vert_normals_dirty, poly_normals_dirty, vert_normals,
                poly_normals, vert_writing, poly_writing, normals_mutex, epc, ecall, eret,
                ecomputed, eprev, meshGen, vertComputes, polyComputes, lastOp>>
sharpVars == <<spc, entry, polys, corner_verts, corner_edges, edges, polynors, common_vert_normals,
               loop_to_poly, split_angle, has_clnors, check_angle, do_sharp_edges_tag,
               edge_to_loops, sharp_edges, loopnors, ml_curr_index, edges_in>>
splitVars == <<positions, lnors_spacearr, lspacearr, lnor_spaces, clnors_data, pool,
               skip_loops, data_buff, data_idx, pushed, ran, tasks, executed, cyclic_found,
               sequential>>
codecVars == <<cpc, space_args, codec_space, codec_custom_lnor, codec_r_clnor_data, codec_clnor_data, codec_r_custom_lnor>>
customVars == <<use_split_normals, rpc, use_vertices, r_custom_loopnors, r_clnors_data,
                done_loops, custom_in, lnors_first, marked, split_calls, writes>>
calcVars == <<calc_phase, calc_mesh, calc_zeroed, calc_vert_normals, calc_poly_normals,
              calc_taken, calc_thread, calc_added, calc_observed, calc_contended>>
vars == <<atomicVars, ensureVars, sharpVars, splitVars, codecVars, customVars, calcVars>>
nonAtomicVars == <<ensureVars, sharpVars, splitVars, codecVars, customVars, calcVars>>
nonEnsureVars == <<atomicVars, sharpVars, splitVars, codecVars, customVars, calcVars>>
nonSharpVars == <<atomicVars, ensureVars, splitVars, codecVars, customVars, calcVars>>
nonMeshVars == <<atomicVars, ensureVars, codecVars, customVars, calcVars>>
nonCodecVars == <<atomicVars, ensureVars, sharpVars, splitVars, customVars, calcVars>>

\* =================================================================== add_v3_v3_atomic

\* The lock sentinel. Accumulated angle-weighted normals stay far below it.
FLT_MAX == 1000

\* The a[3] arguments the callers pass (angle-weighted polygon normals).
Deltas == {<<1, 2, -1>>, <<2, -1, 3>>}

Vec3(x, y, z) == [i \in 0..2 |-> CASE i = 0 -> x [] i = 1 -> y [] OTHER -> z]

\* atomic_cas_float(&v, old, new): the value left in memory.
atomic_cas_float(cur, old, new) == IF cur = old THEN new ELSE cur

LockAcquired_IgnoreSentinel(test_lock, vlock) == test_lock = vlock

LockAcquired_Never(test_lock, vlock) == FALSE

\* The loop exit test: FLT_EQ_NONAN(test_lock, virtual_lock) && test_lock != FLT_MAX.
LockAcquired(test_lock, vlock) == test_lock = vlock /\ test_lock # FLT_MAX

\* calculate_normals_poly_and_vert is not running.
InitCalc ==
  /\ calc_phase = "idle"
  /\ calc_mesh = << >>
  /\ calc_zeroed = 0
  /\ calc_vert_normals = << >>
  /\ calc_poly_normals = << >>
  /\ calc_taken = {}
  /\ calc_thread = << >>
  /\ calc_added = 0
  /\ calc_observed = << >>
  /\ calc_contended = FALSE

InitAtomic ==
  /\ r = Vec3(0, 0, 0)
  /\ apc = [t \in Threads |-> "idle"]
  /\ a_arg = [t \in Threads |-> Vec3(0, 0, 0)]
  /\ virtual_lock = [t \in Threads |-> 0]
  /\ reg = [t \in Threads |-> 0]
  /\ added = Vec3(0, 0, 0)
  /\ ncalls = 0
  /\ contended = FALSE

\* A worker of the polygon-parallel pass calls add_v3_v3_atomic(vnor, vnor_add).
add_call(t) ==
  /\ apc[t] = "idle"
  /\ ncalls < MaxCalls
  /\ \E d \in Deltas :
       /\ a_arg' = [a_arg EXCEPT ![t] = Vec3(d[1], d[2], d[3])]
       /\ added' = [i \in 0..2 |-> added[i] + d[i + 1]]
  /\ ncalls' = ncalls + 1
  /\ apc' = [apc EXCEPT ![t] = "L65"]
  /\ UNCHANGED <<r, virtual_lock, reg, contended>>
  /\ UNCHANGED nonAtomicVars

\* float virtual_lock = r[0];
add_L65(t) ==
  /\ apc[t] = "L65"
  /\ virtual_lock' = [virtual_lock EXCEPT ![t] = r[0]]
  /\ apc' = [apc EXCEPT ![t] = "L70"]
  /\ UNCHANGED <<r, a_arg, reg, added, ncalls, contended>>
  /\ UNCHANGED nonAtomicVars

\* One iteration of the retry loop: the acquiring compare-and-swap and its test.
add_L70(t) ==
  /\ apc[t] = "L70"
  /\ LET test_lock == r[0] IN
       /\ r' = [r EXCEPT ![0] = atomic_cas_float(r[0], virtual_lock[t], FLT_MAX)]
       /\ IF LockAcquired(test_lock, virtual_lock[t])
            THEN /\ apc' = [apc EXCEPT ![t] = "L76"]
                 /\ UNCHANGED virtual_lock
            ELSE /\ virtual_lock' = [virtual_lock EXCEPT ![t] = test_lock]
                 /\ UNCHANGED apc
       /\ contended' = (contended \/ test_lock = FLT_MAX)
  /\ UNCHANGED <<a_arg, reg, added, ncalls>>
  /\ UNCHANGED nonAtomicVars

\* virtual_lock += a[0]; and the load of r[1] += a[1].
add_L76(t) ==
  /\ apc[t] = "L76"
  /\ virtual_lock' = [virtual_lock EXCEPT ![t] = virtual_lock[t] + a_arg[t][0]]
  /\ reg' = [reg EXCEPT ![t] = r[1]]
  /\ apc' = [apc EXCEPT ![t] = "L77"]
  /\ UNCHANGED <<r, a_arg, added, ncalls, contended>>
  /\ UNCHANGED nonAtomicVars

\* The store of r[1] += a[1]; and the load of r[2] += a[2].
add_L77(t) ==
  /\ apc[t] = "L77"
  /\ r' = [r EXCEPT ![1] = reg[t] + a_arg[t][1]]
  /\ reg' = [reg EXCEPT ![t] = r[2]]
  /\ apc' = [apc EXCEPT ![t] = "L78"]
  /\ UNCHANGED <<a_arg, virtual_lock, added, ncalls, contended>>
  /\ UNCHANGED nonAtomicVars

\* The store of r[2] += a[2].
add_L78(t) ==
  /\ apc[t] = "L78"
  /\ r' = [r EXCEPT ![2] = reg[t] + a_arg[t][2]]
  /\ apc' = [apc EXCEPT ![t] = "L84"]
  /\ UNCHANGED <<a_arg, virtual_lock, reg, added, ncalls, contended>>
  /\ UNCHANGED nonAtomicVars

\* virtual_lock = atomic_cas_float(&r[0], FLT_MAX, virtual_lock); and the return.
add_L84(t) ==
  /\ apc[t] = "L84"
  /\ r' = [r EXCEPT ![0] = atomic_cas_float(r[0], FLT_MAX, virtual_lock[t])]
  /\ virtual_lock' = [virtual_lock EXCEPT ![t] = r[0]]
  /\ reg' = [reg EXCEPT ![t] = 0]
  /\ apc' = [apc EXCEPT ![t] = "idle"]
  /\ UNCHANGED <<a_arg, added, ncalls, contended>>
  /\ UNCHANGED nonAtomicVars

NextAtomic ==
  \E t \in Threads :
    \/ add_call(t) \/ add_L65(t) \/ add_L70(t) \/ add_L76(t)
    \/ add_L77(t) \/ add_L78(t) \/ add_L84(t)

AllReturned == \A t \in Threads : apc[t] = "idle"

\* C1: once every call of add_v3_v3_atomic on the shared vector has returned, each
\* component equals its initial value (zero) plus the sum of all deltas passed, in
\* every interleaving and for every number of threads: no update is lost.
C1_NoLostUpdate == AllReturned => \A i \in 0..2 : r[i] = added[i]

\* Several calls ran concurrently, one of them spun on the locked vector, all returned.
C1_Witness ==
  /\ AllReturned /\ contended /\ ncalls >= 2
  /\ \A i \in 0..2 : r[i] = added[i]

\* C30: at most one thread at a time is between the acquiring and the releasing
\* compare-and-swap on the vector; while a thread is there r[0] holds the lock sentinel;
\* and the releasing compare-and-swap returns the sentinel, so the assertion
\* virtual_lock == FLT_MAX holds in every interleaving.
C30_LockHeldExclusively ==
  /\ [](LET holders == {t \in Threads : apc[t] \in {"L76", "L77", "L78", "L84"}}
        IN /\ Cardinality(holders) <= 1
           /\ holders # {} => r[0] = FLT_MAX
           /\ \A i \in 0..2 : added[i] # FLT_MAX)
  /\ [][\A t \in Threads :
          (apc[t] = "L84" /\ apc'[t] = "idle") =>
            /\ virtual_lock'[t] = FLT_MAX
            /\ r'[0] # FLT_MAX]_vars

\* One thread is about to release the vector it locked while another thread is in the
\* retry loop and has read the sentinel from r[0].
C30_Witness ==
  \E t, u \in Threads :
    /\ t # u
    /\ apc[t] = "L84" /\ r[0] = FLT_MAX
    /\ apc[u] = "L70" /\ virtual_lock[u] = FLT_MAX
    /\ contended

\* C31: with finitely many concurrent calls of add_v3_v3_atomic on the same vector and
\* every running thread scheduled again and again, every call that has started leaves
\* its retry loop and returns, and from some point on no call is running and r[0] does
\* not hold the lock sentinel.
C31_EveryCallReturns ==
  /\ \A t \in Threads : (apc[t] # "idle") ~> (apc[t] = "idle")
  /\ <>[](AllReturned /\ r[0] # FLT_MAX)

\* All the calls of the run were made, one of them spun on the locked vector, and the
\* last one has returned and left the vector unlocked.
C31_Witness ==
  /\ AllReturned /\ contended /\ ncalls = MaxCalls
  /\ r[0] # FLT_MAX

\* =================================================================== normal caches

NULLPTR == -1

\* (totvert, totpoly) of the meshes considered: empty, vertices only, with polygons.
MeshSizes == {<<0, 0>>, <<3, 0>>, <<3, 1>>}

Returned(value, writing) == <<value, writing>>

InitEnsureOf(nv, np) ==
  /\ totvert = nv
  /\ totpoly = np
  /\ vert_normals_dirty = TRUE
  /\ poly_normals_dirty = TRUE
  /\ vert_normals = NULLPTR
  /\ poly_normals = NULLPTR
  /\ vert_writing = FALSE
  /\ poly_writing = FALSE
  /\ normals_mutex = 0
  /\ epc = [t \in Threads |-> "idle"]
  /\ ecall = [t \in Threads |-> "none"]
  /\ eret = [t \in Threads |-> Returned(NULLPTR, FALSE)]
  /\ ecomputed = [t \in Threads |-> FALSE]
  /\ eprev = [t \in Threads |-> <<"none", Returned(NULLPTR, FALSE)>>]
  /\ meshGen = 1
  /\ vertComputes = 0
  /\ polyComputes = 0
  /\ lastOp = <<"tag", Returned(NULLPTR, FALSE)>>

\* Start of a call of BKE_mesh_vertex_normals_ensure ("vert") or
\* BKE_mesh_poly_normals_ensure ("poly") by thread t.
ensure_call(t, kind) ==
  /\ epc[t] = "idle"
  /\ epc' = [epc EXCEPT ![t] = IF kind = "vert" THEN "v366" ELSE "p412"]
  /\ ecall' = [ecall EXCEPT ![t] = kind]
  /\ ecomputed' = [ecomputed EXCEPT ![t] = FALSE]
  /\ eprev' = [eprev EXCEPT ![t] = lastOp]
  /\ UNCHANGED <<totvert, totpoly, vert_normals_dirty, poly_normals_dirty, vert_normals,
                 poly_normals, vert_writing, poly_writing, normals_mutex, eret, meshGen,
                 vertComputes, polyComputes, lastOp>>
  /\ UNCHANGED nonEnsureVars

\* The return of thread t's call with the array `value` (and the lock_guard's release
\* when the thread holds the mutex).
ensure_return(t, value, writing) ==
  /\ epc' = [epc EXCEPT ![t] = "idle"]
  /\ eret' = [eret EXCEPT ![t] = Returned(value, writing)]
  /\ lastOp' = <<ecall[t], Returned(value, writing)>>
  /\ normals_mutex' = IF normals_mutex = t THEN 0 ELSE normals_mutex

\* The lock-free test without the second look at the dirty flag under the mutex.
StillDirty_NoRecheck(flag) == TRUE

\* if (!BKE_mesh_*_normals_are_dirty(mesh)) return ...; evaluated under the mutex.
StillDirty(flag) == flag

\* Lines 366-373: the lock-free fast path, and the empty mesh.
vert_ensure_L366(t) ==
  /\ epc[t] = "v366"
  /\ IF ~vert_normals_dirty
       THEN ensure_return(t, vert_normals, vert_writing)
       ELSE IF totvert = 0
         THEN ensure_return(t, NULLPTR, FALSE)
         ELSE /\ epc' = [epc EXCEPT ![t] = "v375"]
              /\ UNCHANGED <<eret, lastOp, normals_mutex>>
  /\ UNCHANGED <<totvert, totpoly, vert_normals_dirty, poly_normals_dirty, vert_normals,
                 poly_normals, vert_writing, poly_writing, ecall, ecomputed, eprev, meshGen,
                 vertComputes, polyComputes>>
  /\ UNCHANGED nonEnsureVars

\* Line 375: std::lock_guard lock{mesh->runtime->normals_mutex};
vert_ensure_L375(t) ==
  /\ epc[t] = "v375"
  /\ normals_mutex = 0
  /\ normals_mutex' = t
  /\ epc' = [epc EXCEPT ![t] = "v376"]
  /\ UNCHANGED <<totvert, totpoly, vert_normals_dirty, poly_normals_dirty, vert_normals,
                 poly_normals, vert_writing, poly_writing, ecall, eret, ecomputed, eprev,
                 meshGen, vertComputes, polyComputes, lastOp>>
  /\ UNCHANGED nonEnsureVars

\* Lines 376-379: the second test, under the mutex.
vert_ensure_L376(t) ==
  /\ epc[t] = "v376"
  /\ IF ~StillDirty(vert_normals_dirty)
       THEN ensure_return(t, vert_normals, vert_writing)
       ELSE /\ epc' = [epc EXCEPT ![t] = "v391"]
            /\ UNCHANGED <<eret, lastOp, normals_mutex>>
  /\ UNCHANGED <<totvert, totpoly, vert_normals_dirty, poly_normals_dirty, vert_normals,
                 poly_normals, vert_writing, poly_writing, ecall, ecomputed, eprev, meshGen,
                 vertComputes, polyComputes>>
  /\ UNCHANGED nonEnsureVars

\* BKE_mesh_*_normals_for_write: the array is allocated (uninitialised) when missing.
for_write(arr) == IF arr = NULLPTR THEN 0 ELSE arr

\* Lines 391-394: both arrays are fetched for writing and
\* BKE_mesh_calc_normals_poly_and_vertex starts rewriting both.
vert_ensure_L391(t) ==
  /\ epc[t] = "v391"
  /\ vert_normals' = for_write(vert_normals)
  /\ poly_normals' = for_write(poly_normals)
  /\ vert_writing' = TRUE
  /\ poly_writing' = TRUE
  /\ vertComputes' = vertComputes + 1
  /\ polyComputes' = polyComputes + 1
  /\ ecomputed' = [ecomputed EXCEPT ![t] = TRUE]
  /\ epc' = [epc EXCEPT ![t] = "v401"]
  /\ UNCHANGED <<totvert, totpoly, vert_normals_dirty, poly_normals_dirty, normals_mutex,
                 ecall, eret, eprev, meshGen, lastOp>>
  /\ UNCHANGED nonEnsureVars

\* Line 401: BKE_mesh_calc_normals_poly_and_vertex returns, both arrays hold the
\* normals of the current mesh data.
vert_ensure_L401(t) ==
  /\ epc[t] = "v401"
  /\ vert_normals' = meshGen
  /\ poly_normals' = meshGen
  /\ vert_writing' = FALSE
  /\ poly_writing' = FALSE
  /\ epc' = [epc EXCEPT ![t] = "v403"]
  /\ UNCHANGED <<totvert, totpoly, vert_normals_dirty, poly_normals_dirty, normals_mutex,
                 ecall, eret, ecomputed, eprev, meshGen, vertComputes, polyComputes, lastOp>>
  /\ UNCHANGED nonEnsureVars

vert_ensure_L403_NoClear(t) ==
  /\ epc[t] = "v403"
  /\ epc' = [epc EXCEPT ![t] = "v404"]
  /\ UNCHANGED <<totvert, totpoly, vert_normals_dirty, poly_normals_dirty, vert_normals,
                 poly_normals, vert_writing, poly_writing, normals_mutex, ecall, eret,
                 ecomputed, eprev, meshGen, vertComputes, polyComputes, lastOp>>
  /\ UNCHANGED nonEnsureVars

\* Line 403: BKE_mesh_vertex_normals_clear_dirty.
vert_ensure_L403(t) ==
  /\ epc[t] = "v403"
  /\ vert_normals_dirty' = FALSE
  /\ epc' = [epc EXCEPT ![t] = "v404"]
  /\ UNCHANGED <<totvert, totpoly, poly_normals_dirty, vert_normals, poly_normals,
                 vert_writing, poly_writing, normals_mutex, ecall, eret, ecomputed, eprev,
                 meshGen, vertComputes, polyComputes, lastOp>>
  /\ UNCHANGED nonEnsureVars

\* Line 404: BKE_mesh_poly_normals_clear_dirty.
vert_ensure_L404(t) ==
  /\ epc[t] = "v404"
  /\ poly_normals_dirty' = FALSE
  /\ epc' = [epc EXCEPT ![t] = "v407"]
  /\ UNCHANGED <<totvert, totpoly, vert_normals_dirty, vert_normals, poly_normals,
                 vert_writing, poly_writing, normals_mutex, ecall, eret, ecomputed, eprev,
                 meshGen, vertComputes, polyComputes, lastOp>>
  /\ UNCHANGED nonEnsureVars

\* Line 407: return vert_normals; the mutex is released.
vert_ensure_L407(t) ==
  /\ epc[t] = "v407"
  /\ ensure_return(t, vert_normals, vert_writing)
  /\ UNCHANGED <<totvert, totpoly, vert_normals_dirty, poly_normals_dirty, vert_normals,
                 poly_normals, vert_writing, poly_writing, ecall, ecomputed, eprev, meshGen,
                 vertComputes, polyComputes>>
  /\ UNCHANGED nonEnsureVars

\* Lines 412-419: the lock-free fast path, and the mesh without polygons.
poly_ensure_L412(t) ==
  /\ epc[t] = "p412"
  /\ IF ~poly_normals_dirty
       THEN ensure_return(t, poly_normals, poly_writing)
       ELSE IF totpoly = 0
         THEN ensure_return(t, NULLPTR, FALSE)
         ELSE /\ epc' = [epc EXCEPT ![t] = "p421"]
              /\ UNCHANGED <<eret, lastOp, normals_mutex>>
  /\ UNCHANGED <<totvert, totpoly, vert_normals_dirty, poly_normals_dirty, vert_normals,
                 poly_normals, vert_writing, poly_writing, ecall, ecomputed, eprev, meshGen,
                 vertComputes, polyComputes>>
  /\ UNCHANGED nonEnsureVars

\* Line 421: std::lock_guard lock{mesh->runtime->normals_mutex};
poly_ensure_L421(t) ==
  /\ epc[t] = "p421"
  /\ normals_mutex = 0
  /\ normals_mutex' = t
  /\ epc' = [epc EXCEPT ![t] = "p422"]
  /\ UNCHANGED <<totvert, totpoly, vert_normals_dirty, poly_normals_dirty, vert_normals,
                 poly_normals, vert_writing, poly_writing, ecall, eret, ecomputed, eprev,
                 meshGen, vertComputes, polyComputes, lastOp>>
  /\ UNCHANGED nonEnsureVars

\* Lines 422-425: the second test, under the mutex.
poly_ensure_L422(t) ==
  /\ epc[t] = "p422"
  /\ IF ~StillDirty(poly_normals_dirty)
       THEN ensure_return(t, poly_normals, poly_writing)
       ELSE /\ epc' = [epc EXCEPT ![t] = "p436"]
            /\ UNCHANGED <<eret, lastOp, normals_mutex>>
  /\ UNCHANGED <<totvert, totpoly, vert_normals_dirty, poly_normals_dirty, vert_normals,
                 poly_normals, vert_writing, poly_writing, ecall, ecomputed, eprev, meshGen,
                 vertComputes, polyComputes>>
  /\ UNCHANGED nonEnsureVars

\* Lines 436-438: the polygon array is fetched for writing and
\* BKE_mesh_calc_normals_poly starts rewriting it.
poly_ensure_L436(t) ==
  /\ epc[t] = "p436"
  /\ poly_normals' = for_write(poly_normals)
  /\ poly_writing' = TRUE
  /\ polyComputes' = polyComputes + 1
  /\ ecomputed' = [ecomputed EXCEPT ![t] = TRUE]
  /\ epc' = [epc EXCEPT ![t] = "p444"]
  /\ UNCHANGED <<totvert, totpoly, vert_normals_dirty, poly_normals_dirty, vert_normals,
                 vert_writing, normals_mutex, ecall, eret, eprev, meshGen, vertComputes,
                 lastOp>>
  /\ UNCHANGED nonEnsureVars

\* Line 444: BKE_mesh_calc_normals_poly returns.
poly_ensure_L444(t) ==
  /\ epc[t] = "p444"
  /\ poly_normals' = meshGen
  /\ poly_writing' = FALSE
  /\ epc' = [epc EXCEPT ![t] = "p446"]
  /\ UNCHANGED <<totvert, totpoly, vert_normals_dirty, poly_normals_dirty, vert_normals,
                 vert_writing, normals_mutex, ecall, eret, ecomputed, eprev, meshGen,
                 vertComputes, polyComputes, lastOp>>
  /\ UNCHANGED nonEnsureVars

\* Line 446: BKE_mesh_poly_normals_clear_dirty.
poly_ensure_L446(t) ==
  /\ epc[t] = "p446"
  /\ poly_normals_dirty' = FALSE
  /\ epc' = [epc EXCEPT ![t] = "p449"]
  /\ UNCHANGED <<totvert, totpoly, vert_normals_dirty, vert_normals, poly_normals,
                 vert_writing, poly_writing, normals_mutex, ecall, eret, ecomputed, eprev,
                 meshGen, vertComputes, polyComputes, lastOp>>
  /\ UNCHANGED nonEnsureVars

\* Line 449: return poly_normals; the mutex is released.
poly_ensure_L449(t) ==
  /\ epc[t] = "p449"
  /\ ensure_return(t, poly_normals, poly_writing)
  /\ UNCHANGED <<totvert, totpoly, vert_normals_dirty, poly_normals_dirty, vert_normals,
                 poly_normals, vert_writing, poly_writing, ecall, ecomputed, eprev, meshGen,
                 vertComputes, polyComputes>>
  /\ UNCHANGED nonEnsureVars

BKE_mesh_normals_tag_dirty_VertOnly ==
  /\ \A t \in Threads : epc[t] = "idle"
  /\ meshGen < MaxGen
  /\ meshGen' = meshGen + 1
  /\ vert_normals_dirty' = TRUE
  /\ vertComputes' = 0
  /\ polyComputes' = 0
  /\ lastOp' = <<"tag", Returned(NULLPTR, FALSE)>>
  /\ ecall' = [t \in Threads |-> "none"]
  /\ eret' = [t \in Threads |-> Returned(NULLPTR, FALSE)]
  /\ ecomputed' = [t \in Threads |-> FALSE]
  /\ eprev' = [t \in Threads |-> <<"none", Returned(NULLPTR, FALSE)>>]
  /\ UNCHANGED <<totvert, totpoly, poly_normals_dirty, vert_normals, poly_normals,
                 vert_writing, poly_writing, normals_mutex, epc>>
  /\ UNCHANGED nonEnsureVars

\* The mesh data is modified and the modifier calls BKE_mesh_normals_tag_dirty. A
\* mesh is not modified while readers evaluate it, so no ensure call is in progress.
BKE_mesh_normals_tag_dirty ==
  /\ \A t \in Threads : epc[t] = "idle"
  /\ meshGen < MaxGen
  /\ meshGen' = meshGen + 1
  /\ vert_normals_dirty' = TRUE
  /\ poly_normals_dirty' = TRUE
  /\ vertComputes' = 0
  /\ polyComputes' = 0
  /\ lastOp' = <<"tag", Returned(NULLPTR, FALSE)>>
  /\ ecall' = [t \in Threads |-> "none"]
  /\ eret' = [t \in Threads |-> Returned(NULLPTR, FALSE)]
  /\ ecomputed' = [t \in Threads |-> FALSE]
  /\ eprev' = [t \in Threads |-> <<"none", Returned(NULLPTR, FALSE)>>]
  /\ UNCHANGED <<totvert, totpoly, vert_normals, poly_normals, vert_writing, poly_writing,
                 normals_mutex, epc>>
  /\ UNCHANGED nonEnsureVars

\* Thread t has returned from a call of kind k made since the last tag_dirty.
HasReturned(t, k) == epc[t] = "idle" /\ ecall[t] = k

\* C2: whatever the number of threads that concurrently call
\* BKE_mesh_vertex_normals_ensure on a non-empty mesh tagged dirty, the vertex normals
\* are computed exactly once and every caller returns the fully computed array.
C2_VertexComputedOnce ==
  /\ vertComputes <= 1
  /\ \A t \in Threads :
       (HasReturned(t, "vert") /\ totvert > 0) =>
         (vertComputes = 1 /\ eret[t] = Returned(meshGen, FALSE))

\* Two callers have returned the computed array; one computed it, the other started
\* before any call had completed, waited, and computed nothing.
C2_Witness ==
  /\ totvert > 0
  /\ \E t, u \in Threads :
       /\ HasReturned(t, "vert") /\ ecomputed[t]
       /\ HasReturned(u, "vert") /\ ~ecomputed[u] /\ eprev[u][1] = "tag"
       /\ eret[t] = Returned(meshGen, FALSE) /\ eret[u] = eret[t]

\* C3: between two consecutive BKE_mesh_normals_tag_dirty calls the polygon normals
\* are computed at most once, for every sequence and interleaving of the two ensure
\* functions.
C3_PolyComputedAtMostOnce == polyComputes <= 1

\* C4: an ensure call made right after a call of the same function, with no
\* BKE_mesh_normals_tag_dirty in between, computes nothing and returns the same array,
\* unchanged, as the first call.
C4_SecondCallCached ==
  \A t \in Threads : \A k \in {"vert", "poly"} :
    (HasReturned(t, k) /\ eprev[t][1] = k) =>
      (~ecomputed[t] /\ eret[t] = eprev[t][2])

\* A second vertex ensure and a second polygon ensure have returned the computed array.
C4_Witness ==
  \E t \in Threads : \E k \in {"vert", "poly"} :
    /\ HasReturned(t, k) /\ eprev[t][1] = k
    /\ totpoly > 0
    /\ eret[t] = Returned(meshGen, FALSE)
    /\ meshGen > 1

\* The array an ensure function of kind k returns on a mesh that has elements for it.
NonEmptyFor(k) == IF k = "vert" THEN totvert > 0 ELSE totpoly > 0

\* C5: BKE_mesh_normals_tag_dirty sets both dirty flags, and an ensure call that
\* returns after it, on a non-empty mesh, returns an array computed after the tag:
\* a cached array tagged dirty is never returned without recomputation.
C5_TagForcesRecompute ==
  /\ [][meshGen' # meshGen => (vert_normals_dirty' /\ poly_normals_dirty')]_vars
  /\ [](\A t \in Threads : \A k \in {"vert", "poly"} :
         (HasReturned(t, k) /\ NonEmptyFor(k)) =>
           /\ eret[t][1] = meshGen
           /\ (IF k = "vert" THEN vertComputes ELSE polyComputes) >= 1)

\* After a mutation and its tag, a vertex ensure has recomputed and a polygon ensure
\* has returned the recomputed array.
C5_Witness ==
  /\ meshGen > 1 /\ totpoly > 0
  /\ \E t, u \in Threads :
       /\ HasReturned(t, "vert") /\ ecomputed[t] /\ eret[t][1] = meshGen
       /\ HasReturned(u, "poly") /\ eret[u][1] = meshGen

\* C33: whenever the polygon-normal dirty flag is false no thread is writing the
\* cached polygon-normal array, and a polygon ensure that returns through the lock-free
\* fast path never returns an array that another ensure call is rewriting.
C33_CleanPolyArrayNotWritten ==
  /\ ~poly_normals_dirty => ~poly_writing
  /\ \A t \in Threads :
       (HasReturned(t, "poly") /\ ~ecomputed[t]) => eret[t] # Returned(poly_normals, TRUE)

\* C34: a vertex ensure that recomputed on a non-empty mesh has left both dirty flags
\* false and both arrays allocated; a polygon ensure that recomputed has left the
\* polygon flag false and its array allocated, and no step of a polygon ensure changes
\* the vertex dirty flag or the vertex-normal array.
C34_EnsureFrame ==
  /\ [](\A t \in Threads :
         /\ (HasReturned(t, "vert") /\ ecomputed[t]) =>
              /\ ~vert_normals_dirty /\ ~poly_normals_dirty
              /\ vert_normals # NULLPTR /\ poly_normals # NULLPTR
         /\ (HasReturned(t, "poly") /\ ecomputed[t]) =>
              /\ ~poly_normals_dirty /\ poly_normals # NULLPTR)
  /\ [][\A t \in Threads :
          (ecall[t] = "poly" /\ epc[t] # "idle" /\ epc'[t] # epc[t]) =>
            /\ vert_normals_dirty' = vert_normals_dirty
            /\ vert_normals' = vert_normals
            /\ vert_writing' = vert_writing
            /\ poly_normals_dirty' # poly_normals_dirty => epc[t] = "p446"]_vars

\* A polygon ensure has recomputed and returned while the vertex normals are still
\* dirty and unallocated, and a vertex ensure is about to recompute both arrays.
C34_Witness ==
  \E t, u \in Threads :
    /\ HasReturned(u, "poly") /\ ecomputed[u]
    /\ vert_normals_dirty /\ vert_normals = NULLPTR
    /\ ~poly_normals_dirty /\ poly_normals # NULLPTR
    /\ epc[t] = "v391"

\* Any number of threads call the two ensure functions, concurrently.
NextEnsure ==
  \/ BKE_mesh_normals_tag_dirty
  \/ \E t \in Threads :
       \/ ensure_call(t, "vert") \/ ensure_call(t, "poly")
       \/ vert_ensure_L366(t) \/ vert_ensure_L375(t) \/ vert_ensure_L376(t)
       \/ vert_ensure_L391(t) \/ vert_ensure_L401(t) \/ vert_ensure_L403(t)
       \/ vert_ensure_L404(t) \/ vert_ensure_L407(t)
       \/ poly_ensure_L412(t) \/ poly_ensure_L421(t) \/ poly_ensure_L422(t)
       \/ poly_ensure_L436(t) \/ poly_ensure_L444(t) \/ poly_ensure_L446(t)
       \/ poly_ensure_L449(t)

\* One thread calls the two ensure functions, one call after the other.
NextEnsureSeq ==
  \/ BKE_mesh_normals_tag_dirty
  \/ \E t \in {1} :
       \/ ensure_call(t, "vert") \/ ensure_call(t, "poly")
       \/ vert_ensure_L366(t) \/ vert_ensure_L375(t) \/ vert_ensure_L376(t)
       \/ vert_ensure_L391(t) \/ vert_ensure_L401(t) \/ vert_ensure_L403(t)
       \/ vert_ensure_L404(t) \/ vert_ensure_L407(t)
       \/ poly_ensure_L412(t) \/ poly_ensure_L421(t) \/ poly_ensure_L422(t)
       \/ poly_ensure_L436(t) \/ poly_ensure_L444(t) \/ poly_ensure_L446(t)
       \/ poly_ensure_L449(t)

InitEnsure == \E s \in MeshSizes : InitEnsureOf(s[1], s[2])

\* =================================================================== edge classification

\* Edges carrying the ME_SHARP flag in one input mesh.
MaxSharpFlags == 1

\* INT_MIN
INDEX_UNSET == -2147483647 - 1
INDEX_INVALID == -1
M_PI == 180

Pair(x, y) == [i \in 0..1 |-> IF i = 0 THEN x ELSE y]

\* #define IS_EDGE_SHARP(_e2l) ELEM((_e2l)[1], INDEX_UNSET, INDEX_INVALID)
IS_EDGE_SHARP(e2l) == e2l[1] \in {INDEX_UNSET, INDEX_INVALID}

\* (e2l[0] | e2l[1]) == 0: the bitwise or is zero exactly when both are zero.
IsEmptyEntry(e2l) == e2l[0] = 0 /\ e2l[1] = 0

dot_v3v3(u, v) == u[1] * v[1] + u[2] * v[2] + u[3] * v[3]

\* cosf on the angles used, multiples of 90 degrees.
cosf(deg) == CASE deg = 0 -> 1 [] deg = 90 -> 0 [] deg = 180 -> -1 [] OTHER -> 0

\* ---- the meshes passed in: polygons as vertex cycles, plus loose edges.
Topologies ==
  { [pv |-> << <<0, 1, 2>> >>, loose |-> << >>],
    [pv |-> << <<0, 1, 2>>, <<1, 0, 3>> >>, loose |-> << {2, 3} >>],
    [pv |-> << <<0, 1, 2>>, <<0, 1, 3>> >>, loose |-> << >>],
    [pv |-> << <<0, 1, 2>>, <<1, 0, 3>>, <<0, 1, 4>> >>, loose |-> << >>],
    [pv |-> << <<0, 1, 2, 3>>, <<1, 0, 4, 5>> >>, loose |-> << >>] }

SplitAngles == {0, 90, 180}

PolyNormals == {<<0, 0, 1>>, <<1, 0, 0>>, <<0, 0, -1>>}

RECURSIVE Flatten(_)
Flatten(pv) == IF pv = << >> THEN << >> ELSE Head(pv) \o Flatten(Tail(pv))

RECURSIVE SumLen(_, _)
SumLen(pv, n) == IF n = 0 THEN 0 ELSE Len(pv[n]) + SumLen(pv, n - 1)

\* polys[p] for the p-th vertex cycle: contiguous corners.
PolysOf(pv, smooth) ==
  [p \in 0..(Len(pv) - 1) |->
     [loopstart |-> SumLen(pv, p), totloop |-> Len(pv[p + 1]), smooth |-> smooth[p]]]

CornerVertsOf(pv) == [l \in 0..(Len(Flatten(pv)) - 1) |-> Flatten(pv)[l + 1]]

\* mesh_topology::build_loop_to_poly_map
build_loop_to_poly_map(ps, numLoops) ==
  [l \in 0..(numLoops - 1) |->
     CHOOSE p \in DOMAIN ps : ps[p].loopstart <= l /\ l < ps[p].loopstart + ps[p].totloop]

\* The corner after l in its polygon.
NextCorner(ps, l2p, l) ==
  LET mp == ps[l2p[l]] IN
    IF l + 1 >= mp.loopstart + mp.totloop THEN mp.loopstart ELSE l + 1

\* The vertex pair of the edge of corner l: its vertex and the next corner's vertex.
EdgeKey(ps, cv, l2p, l) == {cv[l], cv[NextCorner(ps, l2p, l)]}

RECURSIVE EdgeKeys(_, _, _, _, _)
EdgeKeys(ps, cv, l2p, l, acc) ==
  IF l \notin DOMAIN cv THEN acc
  ELSE LET k == EdgeKey(ps, cv, l2p, l) IN
         EdgeKeys(ps, cv, l2p, l + 1,
                  IF \E j \in 1..Len(acc) : acc[j] = k THEN acc ELSE Append(acc, k))

\* The edges of a topology (each vertex pair once, loose edges last) with their flags.
EdgesOf(keys, flagged) ==
  [e \in 0..(Len(keys) - 1) |-> [vs |-> keys[e + 1], sharp |-> e \in flagged]]

CornerEdgesOf(ps, cv, l2p, keys) ==
  [l \in DOMAIN cv |-> (CHOOSE j \in 1..Len(keys) : keys[j] = EdgeKey(ps, cv, l2p, l)) - 1]

\* Vertex normals passed in by the caller.
VertNormalsOf(cv) ==
  [v \in {cv[l] : l \in DOMAIN cv} |->
     CASE v % 3 = 0 -> <<0, 0, 1>> [] v % 3 = 1 -> <<1, 0, 0>> [] OTHER -> <<0, 1, 0>>]

NumLoops == Cardinality(DOMAIN corner_verts)

InitSharp ==
  /\ spc = "idle"
  /\ entry = "none"
  /\ polys = << >>
  /\ corner_verts = << >>
  /\ corner_edges = << >>
  /\ edges = << >>
  /\ polynors = << >>
  /\ common_vert_normals = << >>
  /\ loop_to_poly = << >>
  /\ split_angle = 0
  /\ has_clnors = FALSE
  /\ check_angle = FALSE
  /\ do_sharp_edges_tag = FALSE
  /\ edge_to_loops = << >>
  /\ sharp_edges = << >>
  /\ loopnors = << >>
  /\ ml_curr_index = 0
  /\ edges_in = << >>

\* The arguments of a call: a mesh (topology, smooth flags, sharp flags, polygon
\* normals), the split angle and whether custom normal data is given.
SetArguments(topo, smooth, flagged, pnors, sa, cl) ==
  LET ps == PolysOf(topo.pv, smooth)
      cv == CornerVertsOf(topo.pv)
      l2p == build_loop_to_poly_map(ps, Len(Flatten(topo.pv)))
      keys == EdgeKeys(ps, cv, l2p, 0, << >>) \o topo.loose
      es == EdgesOf(keys, flagged)
  IN /\ polys' = ps
     /\ corner_verts' = cv
     /\ loop_to_poly' = l2p
     /\ edges' = es
     /\ edges_in' = es
     /\ corner_edges' = CornerEdgesOf(ps, cv, l2p, keys)
     /\ polynors' = pnors
     /\ common_vert_normals' = VertNormalsOf(cv)
     /\ split_angle' = sa
     /\ has_clnors' = cl

NumEdgesOf(topo) ==
  LET ps == PolysOf(topo.pv, [p \in 0..(Len(topo.pv) - 1) |-> TRUE])
      cv == CornerVertsOf(topo.pv)
      l2p == build_loop_to_poly_map(ps, Len(Flatten(topo.pv)))
  IN Len(EdgeKeys(ps, cv, l2p, 0, << >>)) + Len(topo.loose)

FlagSets(topo) ==
  {f \in SUBSET (0..(NumEdgesOf(topo) - 1)) : Cardinality(f) <= MaxSharpFlags}

CheckAngle_IgnoreClnors(sa, cl) == sa < M_PI

\* const bool check_angle = (split_angle < float(M_PI)) && (clnors_data == nullptr);
CheckAngle(sa, cl) == sa < M_PI /\ ~cl

\* int(*edge_to_loops)[2] = MEM_calloc_arrayN(numEdges, ...)
CallocEdgeToLoops(es) == [e \in DOMAIN es |-> Pair(0, 0)]

\* BKE_mesh_normals_loop_split with use_split_normals, up to the call of
\* mesh_edges_sharp_tag(&common_data, check_angle, split_angle, false).
BKE_mesh_normals_loop_split ==
  /\ spc = "idle"
  /\ \E topo \in Topologies :
     \E smooth \in [0..(Len(topo.pv) - 1) -> BOOLEAN] :
     \E flagged \in FlagSets(topo) :
     \E pnors \in [0..(Len(topo.pv) - 1) -> PolyNormals] :
     \E sa \in SplitAngles :
     \E cl \in BOOLEAN :
       /\ SetArguments(topo, smooth, flagged, pnors, sa, cl)
       /\ check_angle' = CheckAngle(sa, cl)
       /\ edge_to_loops' = CallocEdgeToLoops(edges')
       /\ loopnors' = [l \in DOMAIN corner_verts' |-> <<0, 0, 0>>]
  /\ entry' = "loop_split"
  /\ do_sharp_edges_tag' = FALSE
  /\ sharp_edges' = << >>
  /\ ml_curr_index' = 0
  /\ spc' = "scan"
  /\ UNCHANGED nonSharpVars

\* BKE_edges_sharp_from_angle_set, up to the call of
\* mesh_edges_sharp_tag(&common_data, true, split_angle, true); loopnors is empty.
BKE_edges_sharp_from_angle_set ==
  /\ spc = "idle"
  /\ \E topo \in Topologies :
     \E smooth \in [0..(Len(topo.pv) - 1) -> BOOLEAN] :
     \E flagged \in FlagSets(topo) :
     \E pnors \in [0..(Len(topo.pv) - 1) -> PolyNormals] :
     \E sa \in SplitAngles :
       /\ SetArguments(topo, smooth, flagged, pnors, sa, FALSE)
       /\ IF sa >= M_PI
            THEN /\ spc' = "return"
                 /\ edge_to_loops' = << >>
                 /\ sharp_edges' = << >>
            ELSE /\ spc' = "scan"
                 /\ edge_to_loops' = CallocEdgeToLoops(edges')
                 /\ sharp_edges' = [e \in DOMAIN edges' |-> FALSE]
  /\ entry' = "from_angle"
  /\ check_angle' = TRUE
  /\ do_sharp_edges_tag' = TRUE
  /\ loopnors' = << >>
  /\ ml_curr_index' = 0
  /\ UNCHANGED nonSharpVars

sharp_tag_corner_KeepSmooth(e2l, se, ml, ck, sa, tag) ==
  LET mp_index == loop_to_poly[ml]
      vert_i == corner_verts[ml]
      edge_i == corner_edges[ml]
      cur == e2l[edge_i]
      split_angle_cos == IF ck THEN cosf(sa) ELSE -1
  IN IF IsEmptyEntry(cur)
       THEN [e2l |-> [e2l EXCEPT ![edge_i] =
                        Pair(ml, IF polys[mp_index].smooth THEN INDEX_UNSET ELSE INDEX_INVALID)],
             se |-> se]
     ELSE IF cur[1] = INDEX_UNSET
       THEN LET is_angle_sharp ==
                  ck /\ dot_v3v3(polynors[loop_to_poly[cur[0]]], polynors[mp_index]) < split_angle_cos
            IN IF \/ ~polys[mp_index].smooth
                  \/ edges[edge_i].sharp
                  \/ vert_i = corner_verts[cur[0]]
                  \/ is_angle_sharp
                 THEN [e2l |-> [e2l EXCEPT ![edge_i] = Pair(cur[0], INDEX_INVALID)],
                       se |-> IF tag /\ is_angle_sharp THEN [se EXCEPT ![edge_i] = TRUE] ELSE se]
                 ELSE [e2l |-> [e2l EXCEPT ![edge_i] = Pair(cur[0], ml)], se |-> se]
     ELSE [e2l |-> e2l, se |-> se]

sharp_tag_corner_NoAngle(e2l, se, ml, ck, sa, tag) ==
  LET mp_index == loop_to_poly[ml]
      vert_i == corner_verts[ml]
      edge_i == corner_edges[ml]
      cur == e2l[edge_i]
  IN IF IsEmptyEntry(cur)
       THEN [e2l |-> [e2l EXCEPT ![edge_i] =
                        Pair(ml, IF polys[mp_index].smooth THEN INDEX_UNSET ELSE INDEX_INVALID)],
             se |-> se]
     ELSE IF cur[1] = INDEX_UNSET
       THEN IF \/ ~polys[mp_index].smooth
               \/ edges[edge_i].sharp
               \/ vert_i = corner_verts[cur[0]]
              THEN [e2l |-> [e2l EXCEPT ![edge_i] = Pair(cur[0], INDEX_INVALID)], se |-> se]
              ELSE [e2l |-> [e2l EXCEPT ![edge_i] = Pair(cur[0], ml)], se |-> se]
     ELSE IF ~IS_EDGE_SHARP(cur)
       THEN [e2l |-> [e2l EXCEPT ![edge_i] = Pair(cur[0], INDEX_INVALID)],
             se |-> IF tag THEN [se EXCEPT ![edge_i] = FALSE] ELSE se]
     ELSE [e2l |-> e2l, se |-> se]

\* The body of the scan of mesh_edges_sharp_tag for corner ml (lines 819-872), on the
\* adjacency table e2l and the bit vector se, with check_angle ck, split_angle sa and
\* do_sharp_edges_tag tag.
sharp_tag_corner(e2l, se, ml, ck, sa, tag) ==
  LET mp_index == loop_to_poly[ml]
      vert_i == corner_verts[ml]
      edge_i == corner_edges[ml]
      cur == e2l[edge_i]
      split_angle_cos == IF ck THEN cosf(sa) ELSE -1
  IN IF IsEmptyEntry(cur)
       THEN \* 'Empty' edge until now.
            [e2l |-> [e2l EXCEPT ![edge_i] =
                        Pair(ml, IF polys[mp_index].smooth THEN INDEX_UNSET ELSE INDEX_INVALID)],
             se |-> se]
     ELSE IF cur[1] = INDEX_UNSET
       THEN \* Second loop using this edge.
            LET is_angle_sharp ==
                  ck /\ dot_v3v3(polynors[loop_to_poly[cur[0]]], polynors[mp_index]) < split_angle_cos
            IN IF \/ ~polys[mp_index].smooth
                  \/ edges[edge_i].sharp
                  \/ vert_i = corner_verts[cur[0]]
                  \/ is_angle_sharp
                 THEN [e2l |-> [e2l EXCEPT ![edge_i] = Pair(cur[0], INDEX_INVALID)],
                       se |-> IF tag /\ is_angle_sharp THEN [se EXCEPT ![edge_i] = TRUE] ELSE se]
                 ELSE [e2l |-> [e2l EXCEPT ![edge_i] = Pair(cur[0], ml)], se |-> se]
     ELSE IF ~IS_EDGE_SHARP(cur)
       THEN \* More than two loops using this edge.
            [e2l |-> [e2l EXCEPT ![edge_i] = Pair(cur[0], INDEX_INVALID)],
             se |-> IF tag THEN [se EXCEPT ![edge_i] = FALSE] ELSE se]
     ELSE [e2l |-> e2l, se |-> se]

\* The scan without the pre-population of the loop normals.
mesh_edges_sharp_tag_scan_NoVertexNormals ==
  /\ spc = "scan"
  /\ LET nxt == sharp_tag_corner(edge_to_loops, sharp_edges, ml_curr_index, check_angle,
                                 split_angle, do_sharp_edges_tag)
     IN /\ edge_to_loops' = nxt.e2l
        /\ sharp_edges' = nxt.se
  /\ ml_curr_index' = ml_curr_index + 1
  /\ spc' = IF ml_curr_index + 1 = NumLoops THEN "scanned" ELSE "scan"
  /\ UNCHANGED <<entry, polys, corner_verts, corner_edges, edges, polynors,
                 common_vert_normals, loop_to_poly, split_angle, has_clnors, check_angle,
                 do_sharp_edges_tag, edges_in, loopnors>>
  /\ UNCHANGED nonSharpVars

\* One iteration of the scan of mesh_edges_sharp_tag (lines 812-874), corner ml_curr_index.
mesh_edges_sharp_tag_scan ==
  /\ spc = "scan"
  /\ LET nxt == sharp_tag_corner(edge_to_loops, sharp_edges, ml_curr_index, check_angle,
                                 split_angle, do_sharp_edges_tag)
     IN /\ edge_to_loops' = nxt.e2l
        /\ sharp_edges' = nxt.se
  /\ loopnors' = IF loopnors # << >>
                   THEN [loopnors EXCEPT ![ml_curr_index] =
                           common_vert_normals[corner_verts[ml_curr_index]]]
                   ELSE loopnors
  /\ ml_curr_index' = ml_curr_index + 1
  /\ spc' = IF ml_curr_index + 1 = NumLoops THEN "scanned" ELSE "scan"
  /\ UNCHANGED <<entry, polys, corner_verts, corner_edges, edges, polynors,
                 common_vert_normals, loop_to_poly, split_angle, has_clnors, check_angle,
                 do_sharp_edges_tag, edges_in>>
  /\ UNCHANGED nonSharpVars

mesh_edges_sharp_tag_apply_Always ==
  /\ spc = "scanned"
  /\ edges' = [e \in DOMAIN edges |->
                 [edges[e] EXCEPT !.sharp =
                    edges[e].sharp \/ (~IsEmptyEntry(edge_to_loops[e]) /\ edge_to_loops[e][1] = INDEX_INVALID)]]
  /\ spc' = "return"
  /\ UNCHANGED <<entry, polys, corner_verts, corner_edges, polynors, common_vert_normals,
                 loop_to_poly, split_angle, has_clnors, check_angle, do_sharp_edges_tag,
                 edge_to_loops, sharp_edges, loopnors, ml_curr_index, edges_in>>
  /\ UNCHANGED nonSharpVars

mesh_edges_sharp_tag_apply_Overwrite ==
  /\ spc = "scanned"
  /\ edges' = IF do_sharp_edges_tag
                THEN [e \in DOMAIN edges |-> [edges[e] EXCEPT !.sharp = sharp_edges[e]]]
                ELSE edges
  /\ spc' = "return"
  /\ UNCHANGED <<entry, polys, corner_verts, corner_edges, polynors, common_vert_normals,
                 loop_to_poly, split_angle, has_clnors, check_angle, do_sharp_edges_tag,
                 edge_to_loops, sharp_edges, loopnors, ml_curr_index, edges_in>>
  /\ UNCHANGED nonSharpVars

\* Lines 876-883: the edges tagged in sharp_edges get ME_SHARP, when requested.
mesh_edges_sharp_tag_apply ==
  /\ spc = "scanned"
  /\ edges' = IF do_sharp_edges_tag
                THEN [e \in DOMAIN edges |->
                        [edges[e] EXCEPT !.sharp = edges[e].sharp \/ sharp_edges[e]]]
                ELSE edges
  /\ spc' = "return"
  /\ UNCHANGED <<entry, polys, corner_verts, corner_edges, polynors, common_vert_normals,
                 loop_to_poly, split_angle, has_clnors, check_angle, do_sharp_edges_tag,
                 edge_to_loops, sharp_edges, loopnors, ml_curr_index, edges_in>>
  /\ UNCHANGED nonSharpVars

\* MEM_freeN(edge_to_loops) and the return to the caller.
sharp_return ==
  /\ spc = "return"
  /\ spc' = "idle"
  /\ entry' = "none"
  /\ polys' = << >>
  /\ corner_verts' = << >>
  /\ corner_edges' = << >>
  /\ edges' = << >>
  /\ polynors' = << >>
  /\ common_vert_normals' = << >>
  /\ loop_to_poly' = << >>
  /\ split_angle' = 0
  /\ has_clnors' = FALSE
  /\ check_angle' = FALSE
  /\ do_sharp_edges_tag' = FALSE
  /\ edge_to_loops' = << >>
  /\ sharp_edges' = << >>
  /\ loopnors' = << >>
  /\ ml_curr_index' = 0
  /\ edges_in' = << >>
  /\ UNCHANGED nonSharpVars

NextSharp ==
  \/ BKE_mesh_normals_loop_split
  \/ BKE_edges_sharp_from_angle_set
  \/ mesh_edges_sharp_tag_scan
  \/ mesh_edges_sharp_tag_apply
  \/ sharp_return

\* The corners that reference edge e.
EdgeCorners(e) == {l \in DOMAIN corner_edges : corner_edges[l] = e}

\* The scan of mesh_edges_sharp_tag is over.
ScanDone == spc = "scanned"

\* Exactly the corners a and b reference e, in two smooth-shaded polygons wound
\* consistently (the two corners are on different vertices).
TwoSmoothConsistent(e, a, b) ==
  /\ a # b
  /\ EdgeCorners(e) = {a, b}
  /\ polys[loop_to_poly[a]].smooth /\ polys[loop_to_poly[b]].smooth
  /\ corner_verts[a] # corner_verts[b]

\* The angle test of the two polygons on e fails: their normals' dot product is below
\* cos(split_angle).
AngleBelow(a, b) ==
  dot_v3v3(polynors[loop_to_poly[a]], polynors[loop_to_poly[b]]) < cosf(split_angle)

\* C6: after the scan, an edge referenced by at least one corner is classified smooth
\* (its entry holds its two corners) if and only if exactly two corners reference it,
\* both polygons are smooth-shaded, the edge has no ME_SHARP flag, the two corners are on
\* different vertices and, with angle checking, the normals' dot product is not below
\* cos(split_angle); every other such edge, one with a single corner included, is sharp.
C6_SmoothIffManifoldSmooth ==
  ScanDone =>
    \A e \in DOMAIN edges :
      EdgeCorners(e) # {} =>
        LET smooth == \E a, b \in EdgeCorners(e) :
                        /\ a < b
                        /\ TwoSmoothConsistent(e, a, b)
                        /\ ~edges[e].sharp
                        /\ (check_angle => ~AngleBelow(a, b))
        IN /\ smooth <=> ~IS_EDGE_SHARP(edge_to_loops[e])
           /\ smooth => \E a, b \in EdgeCorners(e) :
                          a < b /\ edge_to_loops[e] = Pair(a, b)

\* The scan ended with a smooth edge, an angle-sharp edge and a single-corner edge.
C6_Witness ==
  /\ ScanDone /\ check_angle
  /\ \E e \in DOMAIN edges : ~IS_EDGE_SHARP(edge_to_loops[e]) /\ edge_to_loops[e][1] > 0
  /\ \E e \in DOMAIN edges : Cardinality(EdgeCorners(e)) = 1 /\ IS_EDGE_SHARP(edge_to_loops[e])

\* A second scan outcome: two smooth consistent polygons, made sharp by the angle alone.
C6_WitnessAngle ==
  /\ ScanDone /\ check_angle
  /\ \E e \in DOMAIN edges : \E a, b \in EdgeCorners(e) :
       /\ TwoSmoothConsistent(e, a, b) /\ ~edges[e].sharp /\ AngleBelow(a, b)
       /\ edge_to_loops[e][1] = INDEX_INVALID

\* C7: during the scan an entry resolved sharp (INDEX_INVALID) is never made smooth
\* again by a later corner, and after the scan every edge referenced by three or more
\* corners is sharp.
C7_SharpAbsorbing ==
  /\ [][\A e \in DOMAIN edge_to_loops :
          (spc = "scan" /\ edge_to_loops[e][1] = INDEX_INVALID) =>
            edge_to_loops'[e][1] = INDEX_INVALID]_vars
  /\ [](ScanDone =>
          \A e \in DOMAIN edges :
            Cardinality(EdgeCorners(e)) >= 3 => edge_to_loops[e][1] = INDEX_INVALID)

\* An edge of three corners whose first two corners made it smooth ended sharp.
C7_Witness ==
  /\ ScanDone /\ ~check_angle
  /\ \E e \in DOMAIN edges : \E a, b, c \in EdgeCorners(e) :
       /\ a < b /\ b < c
       /\ polys[loop_to_poly[a]].smooth /\ polys[loop_to_poly[b]].smooth
       /\ corner_verts[a] # corner_verts[b] /\ ~edges[e].sharp
       /\ edge_to_loops[e][1] = INDEX_INVALID

\* BKE_edges_sharp_from_angle_set has tagged the edges and is about to return.
TaggingDone == spc = "return" /\ entry = "from_angle"

\* C8: in edge-tagging mode an edge gains ME_SHARP only when the angle threshold is
\* the deciding factor: an edge also sharp for another cause (a flat polygon, flipped
\* winding, more than two corners) is not newly flagged.
C8_TaggedOnlyByAngle ==
  TaggingDone =>
    \A e \in DOMAIN edges :
      (edges[e].sharp /\ ~edges_in[e].sharp) =>
        \E a, b \in EdgeCorners(e) : TwoSmoothConsistent(e, a, b) /\ AngleBelow(a, b)

\* C9: with split_angle = pi no edge is sharp because of the angle of its two polygon
\* normals, whatever their dot product, and BKE_edges_sharp_from_angle_set changes no
\* edge flag; with angle checking and split_angle = 0, an edge of two smooth,
\* consistently wound polygons is sharp whenever their normals' dot product is below 1.
C9_AngleLimits ==
  /\ (ScanDone /\ split_angle = M_PI) =>
       \A e \in DOMAIN edges : \A a, b \in EdgeCorners(e) :
         (TwoSmoothConsistent(e, a, b) /\ ~edges[e].sharp) =>
           ~IS_EDGE_SHARP(edge_to_loops[e])
  /\ (TaggingDone /\ split_angle = M_PI) => edges = edges_in
  /\ (ScanDone /\ check_angle /\ split_angle = 0) =>
       \A e \in DOMAIN edges : \A a, b \in EdgeCorners(e) :
         ( /\ TwoSmoothConsistent(e, a, b)
           /\ dot_v3v3(polynors[loop_to_poly[a]], polynors[loop_to_poly[b]]) < 1 ) =>
           IS_EDGE_SHARP(edge_to_loops[e])

\* split_angle = 0 made an unflagged edge of two smooth consistent polygons sharp.
C9_Witness ==
  /\ ScanDone /\ check_angle /\ split_angle = 0
  /\ \E e \in DOMAIN edges : \E a, b \in EdgeCorners(e) :
       /\ TwoSmoothConsistent(e, a, b) /\ ~edges[e].sharp
       /\ dot_v3v3(polynors[loop_to_poly[a]], polynors[loop_to_poly[b]]) < 1
       /\ IS_EDGE_SHARP(edge_to_loops[e])

\* split_angle = pi left an edge of two opposed normals smooth.
C9_WitnessPi ==
  /\ ScanDone /\ split_angle = M_PI
  /\ \E e \in DOMAIN edges : \E a, b \in EdgeCorners(e) :
       /\ TwoSmoothConsistent(e, a, b)
       /\ dot_v3v3(polynors[loop_to_poly[a]], polynors[loop_to_poly[b]]) = -1
       /\ ~IS_EDGE_SHARP(edge_to_loops[e])

\* The adjacency table mesh_edges_sharp_tag builds on the mesh of the call in progress
\* when run from corner l with check_angle ck and split_angle sa, no edge tagging.
RECURSIVE ScanFrom(_, _, _, _)
ScanFrom(e2l, l, ck, sa) ==
  IF l >= NumLoops THEN e2l
  ELSE ScanFrom(sharp_tag_corner(e2l, << >>, l, ck, sa, FALSE).e2l, l + 1, ck, sa)

\* The classification BKE_mesh_normals_loop_split computes for split angle sa.
LoopSplitClassification(sa) ==
  ScanFrom(CallocEdgeToLoops(edges), 0, CheckAngle(sa, has_clnors), sa)

\* C10: when custom normal data is given to BKE_mesh_normals_loop_split, the edge
\* classification (which alone determines the fans) is the same for every split_angle:
\* the run in progress agrees with the run on the same mesh for any other split_angle.
C10_SplitAngleIgnoredWithClnors ==
  (ScanDone /\ entry = "loop_split" /\ has_clnors) =>
    \A sa \in SplitAngles : LoopSplitClassification(sa) = edge_to_loops

\* With custom normals, an edge whose polygons' normals are opposed stayed smooth
\* under split_angle = 0.
C10_Witness ==
  /\ ScanDone /\ entry = "loop_split" /\ has_clnors /\ split_angle = 0
  /\ \E e \in DOMAIN edges : \E a, b \in EdgeCorners(e) :
       /\ TwoSmoothConsistent(e, a, b)
       /\ dot_v3v3(polynors[loop_to_poly[a]], polynors[loop_to_poly[b]]) = -1
       /\ ~IS_EDGE_SHARP(edge_to_loops[e])

\* C11: BKE_mesh_normals_loop_split never changes the ME_SHARP flag of an edge: inside a
\* call, a step that changes the edges belongs to BKE_edges_sharp_from_angle_set, and
\* throughout a loop-split call the edges are the ones passed in.
C11_LoopSplitKeepsSharpFlags ==
  /\ [][(entry' = entry /\ edges' # edges) => entry = "from_angle"]_vars
  /\ [](entry = "loop_split" => edges = edges_in)

\* A loop-split call has classified an unflagged edge sharp by the angle test and is
\* about to return; the edge is still unflagged.
C11_Witness ==
  /\ entry = "loop_split" /\ spc = "return" /\ check_angle
  /\ \E e \in DOMAIN edges : \E a, b \in EdgeCorners(e) :
       /\ TwoSmoothConsistent(e, a, b)
       /\ AngleBelow(a, b)
       /\ IS_EDGE_SHARP(edge_to_loops[e])
       /\ ~edges[e].sharp

\* =================================================================== loop normals

\* Tasks per block handed to the pool (1024 in the source), scaled down.
LOOP_SPLIT_TASK_BLOCK_SIZE == 2

\* <limits.h>
SHRT_MAX == 32767

\* ---- float[3] as integer vectors. A unit vector is kept as its direction, reduced by
\* ---- the greatest common divisor of its components; angles are in degrees.
RECURSIVE Gcd(_, _)
Gcd(a, b) == IF b = 0 THEN a ELSE Gcd(b, a % b)

sub_v3_v3v3(a, b) == <<a[1] - b[1], a[2] - b[2], a[3] - b[3]>>

madd_v3_v3fl(rv, a, f) == <<rv[1] + a[1] * f, rv[2] + a[2] * f, rv[3] + a[3] * f>>

cross_v3_v3v3(a, b) ==
  <<a[2] * b[3] - a[3] * b[2], a[3] * b[1] - a[1] * b[3], a[1] * b[2] - a[2] * b[1]>>

\* normalize_v3: the zero vector stays zero (and the returned length is zero).
normalize_v3(a) ==
  LET abs(x) == IF x < 0 THEN -x ELSE x
      g == Gcd(Gcd(abs(a[1]), abs(a[2])), abs(a[3]))
  IN IF g = 0 THEN a ELSE <<a[1] \div g, a[2] \div g, a[3] \div g>>

\* The unit vector of the direction a in fixed point, of length 1000: what the float
\* code holds for a normalized vector, to three decimals. The square root is found digit
\* by digit; the zero vector stays zero.
unit_v3(a) ==
  LET abs(x) == IF x < 0 THEN -x ELSE x
      max(v) == LET m == IF abs(v[1]) > abs(v[2]) THEN abs(v[1]) ELSE abs(v[2])
                IN IF abs(v[3]) > m THEN abs(v[3]) ELSE m
      short(v) == IF max(v) > 1000
                    THEN <<(v[1] * 1000) \div max(v), (v[2] * 1000) \div max(v),
                           (v[3] * 1000) \div max(v)>>
                    ELSE v
      scale(bb) == IF bb <= 2000 THEN 1000 ELSE IF bb <= 200000 THEN 100 ELSE 10
      digit(x, base, step) == {c \in {base + step * i : i \in 0..9} :
                                 /\ c <= 46340
                                 /\ c * c <= x
                                 /\ (c + step > 46340 \/ x < (c + step) * (c + step))}
      sqrt(x) == CHOOSE res \in UNION {digit(x, d3, 1) : d3 \in
                          UNION {digit(x, d2, 10) : d2 \in
                            UNION {digit(x, d1, 100) : d1 \in
                              UNION {digit(x, d0, 1000) : d0 \in digit(x, 0, 10000)}}}} : TRUE
      \* |b| in thousandths
      length(b) == LET bb == dot_v3v3(b, b)
                       s == scale(bb)
                   IN CHOOSE res \in {sqrt(y) * (1000 \div s) : y \in {bb * s * s}} : TRUE
      unit(b) == IF b = <<0, 0, 0>> THEN b
                 ELSE CHOOSE res \in {<<(b[1] * 2000000 + len) \div (2 * len),
                                        (b[2] * 2000000 + len) \div (2 * len),
                                        (b[3] * 2000000 + len) \div (2 * len)>> :
                                        len \in {length(b)}} : TRUE
  IN CHOOSE res \in {unit(b) : b \in {short(x) : x \in {a}}} : TRUE

\* 1000 * cosf(deg): the cosine of every whole angle of the first quadrant, the other
\* quadrants by symmetry; sinf(x) is cosf(x - 90).
cosf_scaled(deg) ==
  LET quadrant == <<1000, 1000, 999, 999, 998, 996, 995, 993, 990, 988, 985, 982, 978, 974,
                    970, 966, 961, 956, 951, 946, 940, 934, 927, 921, 914, 906, 899, 891,
                    883, 875, 866, 857, 848, 839, 829, 819, 809, 799, 788, 777, 766, 755,
                    743, 731, 719, 707, 695, 682, 669, 656, 643, 629, 616, 602, 588, 574,
                    559, 545, 530, 515, 500, 485, 469, 454, 438, 423, 407, 391, 375, 358,
                    342, 326, 309, 292, 276, 259, 242, 225, 208, 191, 174, 156, 139, 122,
                    105, 87, 70, 52, 35, 17, 0>>
      s == deg % 360
      f == IF s > 180 THEN 360 - s ELSE s
  IN IF f > 90 THEN -quadrant[180 - f + 1] ELSE quadrant[f + 1]

\* saacos(dot_v3v3(u, v)) for the unit vectors of directions u and v: the angle whose
\* cosine is dot / (|u| |v|), from its square as a reduced fraction, to the nearest
\* degree. The dot product with a zero vector is zero.
saacos(u, v) ==
  LET abs(x) == IF x < 0 THEN -x ELSE x
      max(a) == LET m == IF abs(a[1]) > abs(a[2]) THEN abs(a[1]) ELSE abs(a[2])
                IN IF abs(a[3]) > m THEN abs(a[3]) ELSE m
      \* long vectors are shortened so that the products stay in range
      short(a) == IF max(a) > 100
                    THEN <<(a[1] * 100) \div max(a), (a[2] * 100) \div max(a), (a[3] * 100) \div max(a)>>
                    ELSE a
      \* the square of the cosine as a reduced fraction, and the sign of the cosine
      fraction(a, b) ==
        LET d == dot_v3v3(a, b)
            den == dot_v3v3(a, a) * dot_v3v3(b, b)
            g == Gcd(d * d, den)
        IN IF d = 0 THEN <<0, 1, 0>>
           ELSE <<(d * d) \div g, den \div g, IF d < 0 THEN -1 ELSE 1>>
      \* the whole angle whose squared cosine is nearest to fr, the smallest of them;
      \* the distance falls and then rises along the quadrant
      nearest(fr) ==
        LET k == fr[2] \div 1000 + 1
            square(c) == c * c
            dist(a) == square(cosf_scaled(a)) * (fr[2] \div k) - 1000000 * (fr[1] \div k)
            first(ds) ==
              LET a0 == CHOOSE a \in 0..90 : ds[a] <= 0 /\ (a = 0 \/ ds[a - 1] > 0)
                  best == IF a0 > 0 /\ ds[a0 - 1] <= -ds[a0] THEN a0 - 1 ELSE a0
              IN CHOOSE a \in 0..best : ds[a] = ds[best]
        IN CHOOSE res \in {first(ds) : ds \in {[a \in 0..90 |-> dist(a)]}} : TRUE
      angle(fr) ==
        LET acute == CASE fr[1] = 0 -> 90
                       [] fr[1] = 1 /\ fr[2] = 1 -> 0
                       [] fr[1] = 1 /\ fr[2] = 2 -> 45
                       [] fr[1] = 1 /\ fr[2] = 3 -> 55
                       [] fr[1] = 2 /\ fr[2] = 3 -> 35
                       [] fr[1] = 1 /\ fr[2] = 4 -> 60
                       [] fr[1] = 3 /\ fr[2] = 4 -> 30
                       [] fr[1] = 1 /\ fr[2] = 6 -> 66
                       [] fr[1] = 5 /\ fr[2] = 6 -> 24
                       [] OTHER -> nearest(fr)
        IN IF fr[3] < 0 THEN M_PI - acute ELSE acute
  IN CHOOSE res \in {angle(fr) : fr \in {fraction(a, b) : a \in {short(x) : x \in {u}},
                                                          b \in {short(y) : y \in {v}}}} : TRUE

\* ---- the meshes given to the loop-normal computation: unit quads on the integer
\* ---- lattice (pv: vertex cycles, pos: positions, nors: polygon normals).
SplitMeshes ==
  LET P(x, y, z) == <<x, y, z>>
      up == P(0, 0, 1)
  IN { \* two coplanar quads sharing an edge
       [pv |-> << <<0, 1, 4, 3>>, <<1, 2, 5, 4>> >>,
        pos |-> <<P(0,0,0), P(1,0,0), P(2,0,0), P(0,1,0), P(1,1,0), P(2,1,0)>>,
        nors |-> <<up, up>>],
       \* the same two quads folded by a right angle along the shared edge
       [pv |-> << <<0, 1, 4, 3>>, <<1, 2, 5, 4>> >>,
        pos |-> <<P(0,0,0), P(1,0,0), P(1,0,1), P(0,1,0), P(1,1,0), P(1,1,1)>>,
        nors |-> <<up, P(-1, 0, 0)>>],
       \* a quad and the same quad wound the other way: every vertex has a closed fan
       \* of two faces with opposite normals
       [pv |-> << <<0, 1, 3, 2>>, <<1, 0, 2, 3>> >>,
        pos |-> <<P(0,0,0), P(1,0,0), P(0,1,0), P(1,1,0)>>,
        nors |-> <<up, P(0, 0, -1)>>],
       \* three faces of a cube around vertex 0: a closed fan of three faces
       [pv |-> << <<0, 2, 4, 1>>, <<0, 3, 5, 2>>, <<0, 1, 6, 3>> >>,
        pos |-> <<P(0,0,0), P(1,0,0), P(0,1,0), P(0,0,1), P(1,1,0), P(0,1,1), P(1,0,1)>>,
        nors |-> <<P(0, 0, -1), P(-1, 0, 0), P(0, -1, 0)>>],
       \* the same with the third face wound the other way (inconsistent winding)
       [pv |-> << <<0, 2, 4, 1>>, <<0, 3, 5, 2>>, <<0, 3, 6, 1>> >>,
        pos |-> <<P(0,0,0), P(1,0,0), P(0,1,0), P(0,0,1), P(1,1,0), P(0,1,1), P(1,0,1)>>,
        nors |-> <<P(0, 0, -1), P(-1, 0, 0), P(0, 1, 0)>> ],
       \* three quads on one edge (non-manifold)
       [pv |-> << <<0, 1, 4, 3>>, <<1, 2, 5, 4>>, <<4, 1, 6, 7>> >>,
        pos |-> <<P(0,0,0), P(1,0,0), P(2,0,0), P(0,1,0), P(1,1,0), P(2,1,0),
                  P(1,0,1), P(1,1,1)>>,
        nors |-> <<up, up, P(-1, 0, 0)>>],
       \* a grid of two by two quads: vertex 4 has a closed fan of four faces
       [pv |-> << <<0, 1, 4, 3>>, <<1, 2, 5, 4>>, <<3, 4, 7, 6>>, <<4, 5, 8, 7>> >>,
        pos |-> <<P(0,0,0), P(1,0,0), P(2,0,0), P(0,1,0), P(1,1,0), P(2,1,0),
                  P(0,2,0), P(1,2,0), P(2,2,0)>>,
        nors |-> <<up, up, up, up>>],
       \* three quads of that grid: vertex 4 has an open fan of three faces
       [pv |-> << <<0, 1, 4, 3>>, <<1, 2, 5, 4>>, <<3, 4, 7, 6>> >>,
        pos |-> <<P(0,0,0), P(1,0,0), P(2,0,0), P(0,1,0), P(1,1,0), P(2,1,0),
                  P(0,2,0), P(1,2,0)>>,
        nors |-> <<up, up, up>>] }

\* No loop-normal computation in progress.
InitSplit ==
  /\ positions = << >>
  /\ lnors_spacearr = FALSE
  /\ lspacearr = << >>
  /\ lnor_spaces = << >>
  /\ clnors_data = << >>
  /\ pool = FALSE
  /\ skip_loops = << >>
  /\ data_buff = << >>
  /\ data_idx = 0
  /\ pushed = << >>
  /\ ran = {}
  /\ tasks = << >>
  /\ executed = << >>
  /\ cyclic_found = {}
  /\ sequential = << >>

\* No codec call in progress.
InitCodec ==
  /\ cpc = "idle"
  /\ space_args = << >>
  /\ codec_space = << >>
  /\ codec_custom_lnor = <<0, 0, 0>>
  /\ codec_r_clnor_data = << >>
  /\ codec_clnor_data = << >>
  /\ codec_r_custom_lnor = << >>

\* No reconciliation in progress; BKE_mesh_normals_loop_split is called with
\* use_split_normals.
InitCustom ==
  /\ use_split_normals = TRUE
  /\ rpc = "idle"
  /\ use_vertices = FALSE
  /\ r_custom_loopnors = << >>
  /\ r_clnors_data = << >>
  /\ done_loops = << >>
  /\ custom_in = << >>
  /\ lnors_first = << >>
  /\ marked = {}
  /\ split_calls = 0
  /\ writes = << >>

\* The custom normal codes passed in: none, the same code on every corner, or codes
\* that differ between the corners of a fan.
ClnorsOf(kind, numLoops) ==
  CASE kind = "none" -> << >>
    [] kind = "same" -> [l \in 0..(numLoops - 1) |-> Pair(SHRT_MAX \div 2, SHRT_MAX)]
    [] kind = "mixed" ->
         [l \in 0..(numLoops - 1) |->
            Pair(IF l % 2 = 0 THEN SHRT_MAX ELSE 0, IF l % 3 = 0 THEN -SHRT_MAX ELSE 0)]

\* BKE_mesh_normals_loop_split called with use_split_normals on one of SplitMeshes,
\* with a shading, at most MaxSharpFlags flagged edges, a split angle, optional custom
\* normal codes and an optional r_lnors_spacearr: the state at the call of
\* mesh_edges_sharp_tag(&common_data, check_angle, split_angle, false).
InitSplitRun ==
  /\ InitAtomic /\ InitCalc /\ InitEnsureOf(0, 0) /\ InitCodec /\ InitCustom
  /\ \E m \in SplitMeshes :
     \E shading \in {"smooth", "flat", "first flat"} :
     \E flagged \in {f \in SUBSET {0, 1} : Cardinality(f) <= MaxSharpFlags} :
     \E sa \in SplitAngles :
     \E kind \in {"none", "same", "mixed"} :
     \E r_lnors_spacearr \in BOOLEAN :
       LET np == Len(m.pv)
           ps == PolysOf(m.pv, [p \in 0..(np - 1) |->
                                  shading = "smooth" \/ (shading = "first flat" /\ p > 0)])
           cv == CornerVertsOf(m.pv)
           l2p == build_loop_to_poly_map(ps, Len(Flatten(m.pv)))
           keys == EdgeKeys(ps, cv, l2p, 0, << >>)
           es == EdgesOf(keys, flagged)
       IN /\ kind # "none" => (sa = M_PI /\ r_lnors_spacearr)
          /\ polys = ps
          /\ corner_verts = cv
          /\ loop_to_poly = l2p
          /\ edges = es
          /\ edges_in = es
          /\ corner_edges = CornerEdgesOf(ps, cv, l2p, keys)
          /\ polynors = [p \in 0..(np - 1) |-> m.nors[p + 1]]
          /\ common_vert_normals = VertNormalsOf(cv)
          /\ positions = [v \in 0..(Len(m.pos) - 1) |-> m.pos[v + 1]]
          /\ split_angle = sa
          /\ has_clnors = (kind # "none")
          /\ check_angle = CheckAngle(sa, kind # "none")
          /\ edge_to_loops = CallocEdgeToLoops(es)
          /\ loopnors = [l \in DOMAIN cv |-> <<0, 0, 0>>]
          /\ clnors_data = ClnorsOf(kind, Len(Flatten(m.pv)))
          /\ lnors_spacearr = (r_lnors_spacearr \/ kind # "none")
          /\ lspacearr = IF r_lnors_spacearr \/ kind # "none"
                           THEN [l \in DOMAIN cv |-> NULLPTR] ELSE << >>
  /\ spc = "scan"
  /\ entry = "loop_split"
  /\ do_sharp_edges_tag = FALSE
  /\ sharp_edges = << >>
  /\ ml_curr_index = 0
  /\ lnor_spaces = << >>
  /\ pool = FALSE
  /\ skip_loops = << >>
  /\ data_buff = << >>
  /\ data_idx = 0
  /\ pushed = << >>
  /\ ran = {}
  /\ tasks = << >>
  /\ executed = << >>
  /\ cyclic_found = {}
  /\ sequential = << >>

\* ---- loop-normal spaces and the custom normal codec

\* BKE_lnor_space_create: spaces_num++ and a zeroed MLoopNorSpace from the arena,
\* appended to the spaces created so far; the new space is the last one.
BKE_lnor_space_create(spaces) ==
  Append(spaces, [vec_lnor |-> <<0, 0, 0>>, vec_ref |-> <<0, 0, 0>>, vec_ortho |-> <<0, 0, 0>>,
                  ref_alpha |-> 0, ref_beta |-> 0, loops |-> << >>, is_single |-> FALSE])

\* BKE_lnor_space_define on the space record lnor_space; edge_vectors is the stack of
\* edge vectors, << >> standing for nullptr. For lattice directions fabsf(dtp) >=
\* LNOR_SPACE_TRIGO_THRESHOLD holds exactly for parallel vectors.
BKE_lnor_space_define(lnor_space, lnor, vec_ref, vec_other, edge_vectors) ==
  LET pi2 == M_PI * 2
      scaled(u, f) == madd_v3_v3fl(<<0, 0, 0>>, u, f)
      aligned(u) == /\ dot_v3v3(u, lnor) # 0
                    /\ dot_v3v3(u, lnor) * dot_v3v3(u, lnor) = dot_v3v3(u, u) * dot_v3v3(lnor, lnor)
      RECURSIVE alpha_sum(_)
      alpha_sum(vecs) == IF vecs = << >> THEN 0
                         ELSE saacos(Head(vecs), lnor) + alpha_sum(Tail(vecs))
      \* Project on lnor's ortho plane.
      project(u) == normalize_v3(sub_v3_v3v3(scaled(u, dot_v3v3(lnor, lnor)),
                                             scaled(lnor, dot_v3v3(u, lnor))))
      ref == project(vec_ref)
      ortho == normalize_v3(cross_v3_v3v3(lnor, ref))
      other == project(vec_other)
      beta == saacos(ref, other)
  IN IF aligned(vec_ref) \/ aligned(vec_other)
       THEN \* tag it as invalid and abort
            [lnor_space EXCEPT !.ref_alpha = 0, !.ref_beta = 0]
       ELSE [lnor_space EXCEPT
               !.vec_lnor = lnor,
               !.ref_alpha = IF edge_vectors # << >>
                               THEN alpha_sum(edge_vectors) \div Len(edge_vectors)
                               ELSE (saacos(vec_ref, lnor) + saacos(vec_other, lnor)) \div 2,
               !.vec_ref = ref,
               !.vec_ortho = ortho,
               !.ref_beta = IF other # ref
                              THEN (IF dot_v3v3(ortho, other) < 0 THEN pi2 - beta ELSE beta)
                              ELSE pi2]

\* BKE_lnor_space_add_loop with bm_loop == nullptr, on the array lsa and the spaces;
\* space is the index of lnor_space. Returns both.
BKE_lnor_space_add_loop(lsa, spaces, space, ml_index, is_single) ==
  [lspacearr |-> [lsa EXCEPT ![ml_index] = space],
   lnor_spaces |-> [spaces EXCEPT ![space] =
                      IF is_single
                        THEN [@ EXCEPT !.is_single = TRUE, !.loops = <<ml_index>>]
                        ELSE [@ EXCEPT !.loops = <<ml_index>> \o @]]]

\* A conversion that loses the sign of the value.
unit_float_to_short_Unsigned(num, den) ==
  (2 * (IF num < 0 THEN -num ELSE num) * SHRT_MAX + den) \div (2 * den)

\* unit_float_to_short(num / den): floorf(val * SHRT_MAX + 0.5f), for den > 0.
unit_float_to_short(num, den) == (2 * num * SHRT_MAX + den) \div (2 * den)

\* BKE_lnor_space_custom_data_to_normal. unit_short_to_float(code) * angle is rounded
\* to the degree; the axes of the space enter as unit vectors in fixed point, and the
\* result is given as a direction.
BKE_lnor_space_custom_data_to_normal(lnor_space, clnor_data) ==
  IF clnor_data[0] = 0 \/ lnor_space.ref_alpha = 0 \/ lnor_space.ref_beta = 0
    THEN \* NOP custom normal data or invalid lnor space, return.
         lnor_space.vec_lnor
    ELSE LET pi2 == M_PI * 2
             times_fac(angle, val) == (2 * angle * val + SHRT_MAX) \div (2 * SHRT_MAX)
             thousandth(x) == (x + 500) \div 1000
             alpha == times_fac(IF clnor_data[0] > 0 THEN lnor_space.ref_alpha
                                ELSE pi2 - lnor_space.ref_alpha, clnor_data[0])
             beta == times_fac(IF clnor_data[1] > 0 THEN lnor_space.ref_beta
                               ELSE pi2 - lnor_space.ref_beta, clnor_data[1])
             sinalpha == cosf_scaled(alpha - 90)
             on_lnor == madd_v3_v3fl(<<0, 0, 0>>, unit_v3(lnor_space.vec_lnor), cosf_scaled(alpha))
             sum == IF clnor_data[1] = 0
                      THEN madd_v3_v3fl(on_lnor, unit_v3(lnor_space.vec_ref), sinalpha)
                      ELSE madd_v3_v3fl(
                             madd_v3_v3fl(on_lnor, unit_v3(lnor_space.vec_ref),
                                          thousandth(sinalpha * cosf_scaled(beta))),
                             unit_v3(lnor_space.vec_ortho),
                             thousandth(sinalpha * cosf_scaled(beta - 90)))
         IN CHOOSE res \in {normalize_v3(<<thousandth(x[1]), thousandth(x[2]), thousandth(x[3])>>) :
                              x \in {sum}} : TRUE

\* BKE_lnor_space_custom_normal_to_data; custom_lnor is a direction, so
\* compare_v3v3(vec_lnor, custom_lnor, 1e-4f) is equality.
BKE_lnor_space_custom_normal_to_data(lnor_space, custom_lnor) ==
  IF custom_lnor = <<0, 0, 0>> \/ lnor_space.vec_lnor = custom_lnor
    THEN Pair(0, 0)
    ELSE LET pi2 == M_PI * 2
             lnor == lnor_space.vec_lnor
             scaled(u, f) == madd_v3_v3fl(<<0, 0, 0>>, u, f)
             alpha == saacos(lnor, custom_lnor)
             \* Project custom lnor on (vec_ref, vec_ortho) plane.
             vec == IF lnor = <<0, 0, 0>> THEN normalize_v3(custom_lnor)
                    ELSE normalize_v3(sub_v3_v3v3(scaled(custom_lnor, dot_v3v3(lnor, lnor)),
                                                  scaled(lnor, dot_v3v3(lnor, custom_lnor))))
             beta0 == saacos(lnor_space.vec_ref, vec)
             beta == IF dot_v3v3(lnor_space.vec_ortho, vec) < 0 THEN pi2 - beta0 ELSE beta0
         IN Pair(IF alpha > lnor_space.ref_alpha
                   THEN unit_float_to_short(-(pi2 - alpha), pi2 - lnor_space.ref_alpha)
                   ELSE unit_float_to_short(alpha, lnor_space.ref_alpha),
                 IF vec # lnor_space.vec_ref \/ vec = <<0, 0, 0>>
                   THEN (IF beta > lnor_space.ref_beta
                           THEN unit_float_to_short(-(pi2 - beta), pi2 - lnor_space.ref_beta)
                           ELSE unit_float_to_short(beta, lnor_space.ref_beta))
                   ELSE 0)

\* ---- the fan walker and the two kinds of task

\* The corner before l in its polygon.
PrevCorner(l) ==
  LET mp == polys[loop_to_poly[l]] IN
    IF l = mp.loopstart THEN mp.loopstart + mp.totloop - 1 ELSE l - 1

\* The normalised vector from the pivot vertex to the other vertex of edge me:
\* sub_v3_v3v3(vec, (me->v1 == mv_pivot_index) ? positions[me->v2] : positions[me->v1],
\* mv_pivot) and normalize_v3(vec).
EdgeVector(me, mv_pivot_index) ==
  LET mv_2 == CHOOSE v \in edges[me].vs : v # mv_pivot_index
  IN normalize_v3(sub_v3_v3v3(positions[mv_2], positions[mv_pivot_index]))

loop_manifold_fan_around_vert_next_Stay(e2lfan_curr, mv_pivot_index, mlfan_curr_index) ==
  [mlfan_vert_index |-> NextCorner(polys, loop_to_poly, mlfan_curr_index),
   mlfan_curr_index |-> mlfan_curr_index,
   mpfan_curr_index |-> loop_to_poly[mlfan_curr_index]]

\* loop_manifold_fan_around_vert_next; returns the three indices it updates.
loop_manifold_fan_around_vert_next(e2lfan_curr, mv_pivot_index, mlfan_curr_index) ==
  LET fan_vert_curr == corner_verts[mlfan_curr_index]
      next_index == IF e2lfan_curr[0] = mlfan_curr_index THEN e2lfan_curr[1] ELSE e2lfan_curr[0]
      mpfan_next == polys[loop_to_poly[next_index]]
      fan_vert_next == corner_verts[next_index]
  IN IF \/ (fan_vert_curr = fan_vert_next /\ fan_vert_curr = mv_pivot_index)
        \/ (fan_vert_curr # fan_vert_next /\ fan_vert_curr # mv_pivot_index)
       THEN \* We need the previous loop, but current one is our vertex's loop.
            [mlfan_vert_index |-> next_index,
             mlfan_curr_index |-> IF next_index - 1 < mpfan_next.loopstart
                                    THEN mpfan_next.loopstart + mpfan_next.totloop - 1
                                    ELSE next_index - 1,
             mpfan_curr_index |-> loop_to_poly[next_index]]
       ELSE \* We need the next loop, which is also our vertex's loop.
            LET nxt == IF next_index + 1 >= mpfan_next.loopstart + mpfan_next.totloop
                         THEN mpfan_next.loopstart ELSE next_index + 1
            IN [mlfan_vert_index |-> nxt, mlfan_curr_index |-> nxt,
                mpfan_curr_index |-> loop_to_poly[next_index]]

\* The two reference vectors split_loop_nor_single_do computes for
\* BKE_lnor_space_define (lines 986-987 and 1013-1026): ml_prev_index is read from
\* data->ml_curr_index, so me_prev is the edge of the corner itself.
split_loop_nor_single_do_vectors(data) ==
  LET ml_curr == data.ml_curr_index
      ml_prev_index == data.ml_curr_index
      mv_pivot_index == corner_verts[ml_curr]
  IN [vec_curr |-> EdgeVector(corner_edges[ml_curr], mv_pivot_index),
      vec_prev |-> EdgeVector(corner_edges[ml_prev_index], mv_pivot_index)]

split_loop_nor_single_do_Neighbour(m, data) ==
  [loopnors |-> [l \in DOMAIN m.loopnors |->
                   IF l \in {data.lnor, PrevCorner(data.lnor)} THEN polynors[data.mp_index]
                   ELSE m.loopnors[l]],
   clnors_data |-> m.clnors_data,
   lspacearr |-> m.lspacearr,
   lnor_spaces |-> m.lnor_spaces,
   visited |-> <<data.ml_curr_index>>, closed |-> FALSE, walked |-> 0]

\* split_loop_nor_single_do on the memory m = [loopnors, clnors_data, lspacearr,
\* lnor_spaces]; data->lnor points to the loop normal of corner data.lnor.
split_loop_nor_single_do(m, data) ==
  LET ml_curr == data.ml_curr_index
      lnor == polynors[data.mp_index]
      vecs == split_loop_nor_single_do_vectors(data)
      space == BKE_lnor_space_define(m.lnor_spaces[data.lnor_space], lnor, vecs.vec_curr,
                                     vecs.vec_prev, << >>)
      with_loop == BKE_lnor_space_add_loop(m.lspacearr,
                                       [m.lnor_spaces EXCEPT ![data.lnor_space] = space],
                                       data.lnor_space, ml_curr, TRUE)
  IN IF ~lnors_spacearr
       THEN [loopnors |-> [m.loopnors EXCEPT ![data.lnor] = lnor],
             clnors_data |-> m.clnors_data,
             lspacearr |-> m.lspacearr,
             lnor_spaces |-> m.lnor_spaces,
             visited |-> <<ml_curr>>, closed |-> FALSE, walked |-> 0]
       ELSE [loopnors |-> [m.loopnors EXCEPT ![data.lnor] =
                             IF m.clnors_data # << >>
                               THEN BKE_lnor_space_custom_data_to_normal(space,
                                                                        m.clnors_data[ml_curr])
                               ELSE lnor],
             clnors_data |-> m.clnors_data,
             lspacearr |-> with_loop.lspacearr,
             lnor_spaces |-> with_loop.lnor_spaces,
             visited |-> <<ml_curr>>, closed |-> FALSE, walked |-> 0]

\* The while (true) loop of split_loop_nor_fan_do (lines 1115-1188) from the walk state
\* w: the three fan indices, vec_prev, the accumulated lnor, the custom code
\* bookkeeping, the stack of corners handled (the smallstacks normal and clnors hold
\* the slots of exactly these corners), edge_vectors, and the space array and spaces.
RECURSIVE FanWalk(_, _, _)
FanWalk(data, clnors, w) ==
  LET mv_pivot_index == corner_verts[data.ml_curr_index]
      me_org == corner_edges[data.ml_curr_index]
      me_curr == corner_edges[w.mlfan_curr_index]
      e2lfan_curr == edge_to_loops[w.e2lfan_curr]
      vec_curr == EdgeVector(me_curr, mv_pivot_index)
      \* Calculate angle between the two poly edges incident on this vertex.
      fac == saacos(vec_curr, w.vec_prev)
      clnor == clnors[w.mlfan_vert_index]
      clnor_ref == IF w.clnors_count > 0 THEN w.clnor_ref ELSE w.mlfan_vert_index
      with_loop == IF lnors_spacearr
                 THEN BKE_lnor_space_add_loop(w.lspacearr, w.lnor_spaces, data.lnor_space,
                                              w.mlfan_vert_index, FALSE)
                 ELSE [lspacearr |-> w.lspacearr, lnor_spaces |-> w.lnor_spaces]
      w1 == [w EXCEPT
               !.lnor = madd_v3_v3fl(@, polynors[w.mpfan_curr_index], fac),
               !.clnors_invalid =
                  IF clnors # << >> /\ w.clnors_count > 0
                    THEN @ \/ clnors[w.clnor_ref][0] # clnor[0] \/ clnors[w.clnor_ref][1] # clnor[1]
                    ELSE @,
               !.clnor_ref = IF clnors # << >> THEN clnor_ref ELSE @,
               !.clnors_avg = IF clnors # << >> THEN <<@[1] + clnor[0], @[2] + clnor[1]>> ELSE @,
               !.clnors_count = IF clnors # << >> THEN @ + 1 ELSE @,
               !.normal = <<w.mlfan_vert_index>> \o @,
               !.lspacearr = with_loop.lspacearr,
               !.lnor_spaces = with_loop.lnor_spaces,
               !.edge_vectors = IF lnors_spacearr /\ me_curr # me_org
                                  THEN <<vec_curr>> \o @ ELSE @,
               !.vec_curr = vec_curr,
               !.walked = @ + 1]
  IN IF IS_EDGE_SHARP(e2lfan_curr) \/ me_curr = me_org
       THEN \* Current edge is sharp, or we have completed a full turn around the vertex.
            [w1 EXCEPT !.closed = (me_curr = me_org)]
     ELSE IF w.walked >= NumLoops
       THEN [w1 EXCEPT !.endless = TRUE]
     ELSE LET nxt == loop_manifold_fan_around_vert_next(e2lfan_curr, mv_pivot_index,
                                                        w.mlfan_curr_index)
              w2 == [w1 EXCEPT !.vec_prev = vec_curr,
                               !.mlfan_curr_index = nxt.mlfan_curr_index,
                               !.mlfan_vert_index = nxt.mlfan_vert_index,
                               !.mpfan_curr_index = nxt.mpfan_curr_index,
                               !.e2lfan_curr = corner_edges[nxt.mlfan_curr_index]]
          IN \* the next iteration, from the walk state as a value
             CHOOSE res \in {FanWalk(data, clnors, x) : x \in {w2}} : TRUE

\* The set-up of split_loop_nor_fan_do (lines 1056-1113) and its walk, on the memory
\* m; data.e2l_prev points to the entry of edge_to_loops of that index.
FanWalkOf(m, data) ==
  LET mv_pivot_index == corner_verts[data.ml_curr_index]
      vec_org == EdgeVector(corner_edges[data.ml_curr_index], mv_pivot_index)
  IN FanWalk(data, m.clnors_data,
             [mlfan_curr_index |-> data.ml_prev_index,
              mlfan_vert_index |-> data.ml_curr_index,
              mpfan_curr_index |-> data.mp_index,
              e2lfan_curr |-> data.e2l_prev,
              vec_prev |-> vec_org, vec_curr |-> <<0, 0, 0>>,
              lnor |-> <<0, 0, 0>>,
              clnors_avg |-> <<0, 0>>, clnor_ref |-> NULLPTR, clnors_count |-> 0,
              clnors_invalid |-> FALSE,
              normal |-> << >>,
              edge_vectors |-> IF lnors_spacearr THEN <<vec_org>> ELSE << >>,
              lspacearr |-> m.lspacearr, lnor_spaces |-> m.lnor_spaces,
              walked |-> 0, closed |-> FALSE, endless |-> FALSE])

\* split_loop_nor_fan_do after its walk has ended in the walk state w (lines
\* 1190-1240).
FanResult(m, data, w) ==
  LET mv_pivot_index == corner_verts[data.ml_curr_index]
      vec_org == EdgeVector(corner_edges[data.ml_curr_index], mv_pivot_index)
      summed == normalize_v3(w.lnor)
      \* Use vertex normal as fallback!
      lnor == IF lnors_spacearr /\ summed = <<0, 0, 0>> THEN m.loopnors[w.mlfan_vert_index]
              ELSE summed
      space == BKE_lnor_space_define(w.lnor_spaces[data.lnor_space], lnor, vec_org, w.vec_curr,
                                     w.edge_vectors)
      \* clnors_avg[i] /= clnors_count: the division of C truncates.
      average(sum) == IF sum >= 0 THEN sum \div w.clnors_count
                      ELSE -((-sum) \div w.clnors_count)
      clnors == IF lnors_spacearr /\ m.clnors_data # << >> /\ w.clnors_invalid
                  THEN [l \in DOMAIN m.clnors_data |->
                          IF \E k \in 1..Len(w.normal) : w.normal[k] = l
                            THEN Pair(average(w.clnors_avg[1]), average(w.clnors_avg[2]))
                            ELSE m.clnors_data[l]]
                  ELSE m.clnors_data
      final == IF lnors_spacearr /\ m.clnors_data # << >>
                 THEN BKE_lnor_space_custom_data_to_normal(space, clnors[w.clnor_ref])
                 ELSE lnor
      \* In case we get a zero normal here, just use vertex normal already set!
      lnor_len_zero == ~lnors_spacearr /\ summed = <<0, 0, 0>>
  IN [loopnors |-> [l \in DOMAIN m.loopnors |->
                      IF ~lnor_len_zero /\ \E k \in 1..Len(w.normal) : w.normal[k] = l
                        THEN final ELSE m.loopnors[l]],
      clnors_data |-> clnors,
      lspacearr |-> w.lspacearr,
      lnor_spaces |-> IF lnors_spacearr
                        THEN [w.lnor_spaces EXCEPT ![data.lnor_space] = space]
                        ELSE w.lnor_spaces,
      visited |-> [k \in 1..Len(w.normal) |-> w.normal[Len(w.normal) + 1 - k]],
      closed |-> w.closed, walked |-> w.walked]

\* split_loop_nor_fan_do on the memory m.
split_loop_nor_fan_do(m, data) ==
  CHOOSE res \in {FanResult(m, data, w) : w \in {FanWalkOf(m, data)}} : TRUE

\* loop_split_worker_do: a task with e2l_prev set is a fan task.
loop_split_worker_do(m, data) ==
  IF data.e2l_prev # NULLPTR THEN split_loop_nor_fan_do(m, data)
  ELSE split_loop_nor_single_do(m, data)

\* ---- the generator

\* The while (true) loop of loop_split_generator_check_cyclic_smooth_fan (lines
\* 1318-1348), from the corner mlfan_curr_index; returns the result and skip_loops.
RECURSIVE CyclicFanWalk(_, _, _)
CyclicFanWalk(skip, mlfan_curr_index, ml_curr) ==
  LET nxt == loop_manifold_fan_around_vert_next(
               edge_to_loops[corner_edges[mlfan_curr_index]], corner_verts[ml_curr],
               mlfan_curr_index)
      e2lfan_curr == edge_to_loops[corner_edges[nxt.mlfan_curr_index]]
  IN IF IS_EDGE_SHARP(e2lfan_curr)
       THEN \* Sharp loop/edge, so not a cyclic smooth fan.
            [ret |-> FALSE, skip_loops |-> skip]
     ELSE IF skip[nxt.mlfan_vert_index]
       THEN \* Back at the start, or already checked in some previous looping.
            [ret |-> nxt.mlfan_vert_index = ml_curr, skip_loops |-> skip]
     ELSE CyclicFanWalk([skip EXCEPT ![nxt.mlfan_vert_index] = TRUE],
                        nxt.mlfan_curr_index, ml_curr)

loop_split_generator_check_cyclic_smooth_fan_Never(skip, e2l_prev, ml_curr, ml_prev) ==
  [ret |-> FALSE, skip_loops |-> [skip EXCEPT ![ml_curr] = TRUE]]

\* loop_split_generator_check_cyclic_smooth_fan; e2l_prev is the entry itself.
loop_split_generator_check_cyclic_smooth_fan(skip, e2l_prev, ml_curr, ml_prev) ==
  IF IS_EDGE_SHARP(e2l_prev)
    THEN \* Sharp loop, so not a cyclic smooth fan.
         [ret |-> FALSE, skip_loops |-> skip]
    ELSE CyclicFanWalk([skip EXCEPT ![ml_curr] = TRUE], ml_prev, ml_curr)

\* An executed task as the history keeps it: the task data the worker read, the
\* corners it handled in order, whether the walk ended on its starting edge, the
\* number of loop iterations, the loop normals these corners hold on completion, and
\* whether the generator's scan was still in progress.
Execution(data, res, scanning) ==
  [data |-> data, visited |-> res.visited, closed |-> res.closed, walked |-> res.walked,
   lnors |-> {res.loopnors[res.visited[k]] : k \in 1..Len(res.visited)},
   scanning |-> scanning]

\* The body of the scan of loop_split_generator for corner ml (lines 1392-1496), with
\* or without a pool, on the generator state g: skip_loops, data_buff, data_idx, the
\* pushed blocks, the memory m the tasks work on, and the histories.
generator_corner(g, ml, with_pool) ==
  LET mp_index == loop_to_poly[ml]
      ml_prev == PrevCorner(ml)
      e2l_curr == edge_to_loops[corner_edges[ml]]
      e2l_prev == edge_to_loops[corner_edges[ml_prev]]
      check == IF ~IS_EDGE_SHARP(e2l_curr) /\ ~g.skip_loops[ml]
                 THEN loop_split_generator_check_cyclic_smooth_fan(g.skip_loops, e2l_prev,
                                                                   ml, ml_prev)
                 ELSE [ret |-> FALSE, skip_loops |-> g.skip_loops]
      zeroed == [lnor_space |-> NULLPTR, lnor |-> NULLPTR, ml_curr_index |-> 0,
                 ml_prev_index |-> 0, e2l_prev |-> NULLPTR, mp_index |-> 0]
      block == IF g.data_idx = 0
                 THEN [i \in 0..(LOOP_SPLIT_TASK_BLOCK_SIZE - 1) |-> zeroed]
                 ELSE g.data_buff
      \* Used to tag the end of the buffer.
      tagged == [i \in DOMAIN block |-> [block[i] EXCEPT !.ml_curr_index = -1]]
      fresh == IF with_pool THEN tagged[g.data_idx] ELSE zeroed
      spaces == IF lnors_spacearr THEN BKE_lnor_space_create(g.m.lnor_spaces)
                ELSE g.m.lnor_spaces
      lnor_space == IF lnors_spacearr THEN Len(spaces) ELSE fresh.lnor_space
      data == IF IS_EDGE_SHARP(e2l_curr) /\ IS_EDGE_SHARP(e2l_prev)
                THEN [fresh EXCEPT !.lnor = ml, !.ml_curr_index = ml, !.mp_index = mp_index,
                                   !.lnor_space = lnor_space]
                ELSE [fresh EXCEPT !.ml_curr_index = ml, !.ml_prev_index = ml_prev,
                                   !.e2l_prev = corner_edges[ml_prev], !.mp_index = mp_index,
                                   !.lnor_space = lnor_space]
      filled == [tagged EXCEPT ![g.data_idx] = data]
      ran_now(res) ==
        [g EXCEPT
           !.skip_loops = check.skip_loops,
           !.cyclic_found = IF check.ret THEN @ \cup {ml} ELSE @,
           !.tasks = Append(@, data),
           !.m = [loopnors |-> res.loopnors, clnors_data |-> res.clnors_data,
                  lspacearr |-> res.lspacearr, lnor_spaces |-> res.lnor_spaces],
           !.executed = Append(@, Execution(data, res, TRUE))]
  IN IF ~IS_EDGE_SHARP(e2l_curr) /\ (g.skip_loops[ml] \/ ~check.ret)
       THEN [g EXCEPT !.skip_loops = check.skip_loops]
     ELSE IF with_pool
       THEN [g EXCEPT
               !.skip_loops = check.skip_loops,
               !.cyclic_found = IF check.ret THEN @ \cup {ml} ELSE @,
               !.tasks = Append(@, data),
               !.m.lnor_spaces = spaces,
               !.data_buff = filled,
               !.data_idx = IF g.data_idx + 1 = LOOP_SPLIT_TASK_BLOCK_SIZE THEN 0
                            ELSE g.data_idx + 1,
               !.pushed = IF g.data_idx + 1 = LOOP_SPLIT_TASK_BLOCK_SIZE
                            THEN Append(@, filled) ELSE @]
       ELSE CHOOSE out \in {ran_now(res) : res \in {loop_split_worker_do(
                                 [g.m EXCEPT !.lnor_spaces = spaces], d) : d \in {data}}} : TRUE

\* loop_split_worker on a block: the tasks up to the first entry tagged -1, in order.
RECURSIVE loop_split_worker_from(_, _, _, _)
loop_split_worker_from(g, block, i, scanning) ==
  IF i >= LOOP_SPLIT_TASK_BLOCK_SIZE \/ block[i].ml_curr_index = -1 THEN g
  ELSE LET ran_now(res) ==
             [g EXCEPT !.m = [loopnors |-> res.loopnors, clnors_data |-> res.clnors_data,
                              lspacearr |-> res.lspacearr, lnor_spaces |-> res.lnor_spaces],
                       !.executed = Append(@, Execution(block[i], res, scanning))]
       IN CHOOSE out \in {loop_split_worker_from(g2, block, i + 1, scanning) :
                            g2 \in {ran_now(res) : res \in {loop_split_worker_do(g.m, block[i])}}} :
            TRUE

\* The generator state held in the variables.
GeneratorState ==
  [skip_loops |-> skip_loops, data_buff |-> data_buff, data_idx |-> data_idx,
   pushed |-> pushed, tasks |-> tasks, cyclic_found |-> cyclic_found, executed |-> executed,
   m |-> [loopnors |-> loopnors, clnors_data |-> clnors_data, lspacearr |-> lspacearr,
          lnor_spaces |-> lnor_spaces]]

SetGeneratorState(g) ==
  /\ skip_loops' = g.skip_loops
  /\ data_buff' = g.data_buff
  /\ data_idx' = g.data_idx
  /\ pushed' = g.pushed
  /\ tasks' = g.tasks
  /\ cyclic_found' = g.cyclic_found
  /\ executed' = g.executed
  /\ loopnors' = g.m.loopnors
  /\ clnors_data' = g.m.clnors_data
  /\ lspacearr' = g.m.lspacearr
  /\ lnor_spaces' = g.m.lnor_spaces

\* numLoops < LOOP_SPLIT_TASK_BLOCK_SIZE * 8: not enough loops to be worth the pool.
UsePool(numLoops) == ~(numLoops < LOOP_SPLIT_TASK_BLOCK_SIZE * 8)

\* BKE_mesh_normals_loop_split after mesh_edges_sharp_tag has returned: the choice of
\* the path (lines 1624-1631) and the entry of loop_split_generator (lines 1362-1379).
loop_split_generator_begin ==
  /\ spc = "return" /\ entry = "loop_split"
  /\ pool' = UsePool(NumLoops)
  /\ skip_loops' = [l \in DOMAIN corner_verts |-> FALSE]
  /\ ml_curr_index' = 0
  /\ spc' = "generate"
  /\ UNCHANGED <<entry, polys, corner_verts, corner_edges, edges, polynors,
                 common_vert_normals, loop_to_poly, split_angle, has_clnors, check_angle,
                 do_sharp_edges_tag, edge_to_loops, sharp_edges, loopnors, edges_in>>
  /\ UNCHANGED <<positions, lnors_spacearr, lspacearr, lnor_spaces, clnors_data, data_buff,
                 data_idx, pushed, ran, tasks, executed, cyclic_found>>
  /\ sequential' = [GeneratorState EXCEPT !.skip_loops = skip_loops']
  /\ UNCHANGED nonMeshVars

\* One iteration of the scan of loop_split_generator: corner ml_curr_index. Without a
\* pool the task runs inside the iteration (line 1491). The reference run without a
\* pool handles the same corner.
loop_split_generator_scan ==
  /\ spc = "generate"
  /\ \E g \in {generator_corner(GeneratorState, ml_curr_index, pool)} : SetGeneratorState(g)
  /\ ml_curr_index' = ml_curr_index + 1
  /\ spc' = IF ml_curr_index + 1 = NumLoops THEN "generated" ELSE "generate"
  /\ UNCHANGED <<entry, polys, corner_verts, corner_edges, edges, polynors,
                 common_vert_normals, loop_to_poly, split_angle, has_clnors, check_angle,
                 do_sharp_edges_tag, edge_to_loops, sharp_edges, edges_in>>
  /\ sequential' \in {generator_corner(sequential, ml_curr_index, FALSE)}
  /\ UNCHANGED <<positions, lnors_spacearr, pool, ran>>
  /\ UNCHANGED nonMeshVars

\* Lines 1499-1507: the last block of data is pushed; without a pool the generator
\* returns to BKE_mesh_normals_loop_split, which is done.
loop_split_generator_end ==
  /\ spc = "generated"
  /\ pushed' = IF pool /\ data_idx # 0 THEN Append(pushed, data_buff) ELSE pushed
  /\ spc' = IF pool THEN "wait" ELSE "done"
  /\ UNCHANGED <<entry, polys, corner_verts, corner_edges, edges, polynors,
                 common_vert_normals, loop_to_poly, split_angle, has_clnors, check_angle,
                 do_sharp_edges_tag, edge_to_loops, sharp_edges, loopnors, ml_curr_index,
                 edges_in>>
  /\ UNCHANGED <<positions, lnors_spacearr, lspacearr, lnor_spaces, clnors_data, pool,
                 skip_loops, data_buff, data_idx, ran, tasks, executed, cyclic_found,
                 sequential>>
  /\ UNCHANGED nonMeshVars

\* loop_split_worker run by a pool thread on a pushed block, at any time after the push.
loop_split_worker ==
  /\ spc \in {"generate", "generated", "wait"}
  /\ \E b \in (1..Len(pushed)) \ ran :
       /\ \E g \in {loop_split_worker_from(GeneratorState, pushed[b], 0, spc = "generate")} :
            SetGeneratorState(g)
       /\ ran' = ran \cup {b}
  /\ UNCHANGED <<spc, entry, polys, corner_verts, corner_edges, edges, polynors,
                 common_vert_normals, loop_to_poly, split_angle, has_clnors, check_angle,
                 do_sharp_edges_tag, edge_to_loops, sharp_edges, ml_curr_index, edges_in>>
  /\ UNCHANGED <<positions, lnors_spacearr, pool, sequential>>
  /\ UNCHANGED nonMeshVars

BLI_task_pool_work_and_wait_NoWait ==
  /\ spc = "wait"
  /\ spc' = "done"
  /\ UNCHANGED <<entry, polys, corner_verts, corner_edges, edges, polynors,
                 common_vert_normals, loop_to_poly, split_angle, has_clnors, check_angle,
                 do_sharp_edges_tag, edge_to_loops, sharp_edges, loopnors, ml_curr_index,
                 edges_in>>
  /\ UNCHANGED splitVars
  /\ UNCHANGED nonMeshVars

\* BLI_task_pool_work_and_wait (line 1633) returns once every pushed block has run.
BLI_task_pool_work_and_wait ==
  /\ spc = "wait"
  /\ ran = 1..Len(pushed)
  /\ spc' = "done"
  /\ UNCHANGED <<entry, polys, corner_verts, corner_edges, edges, polynors,
                 common_vert_normals, loop_to_poly, split_angle, has_clnors, check_angle,
                 do_sharp_edges_tag, edge_to_loops, sharp_edges, loopnors, ml_curr_index,
                 edges_in>>
  /\ UNCHANGED splitVars
  /\ UNCHANGED nonMeshVars

NextSplit ==
  \/ mesh_edges_sharp_tag_scan
  \/ mesh_edges_sharp_tag_apply
  \/ loop_split_generator_begin
  \/ loop_split_generator_scan
  \/ loop_split_generator_end
  \/ loop_split_worker
  \/ BLI_task_pool_work_and_wait

\* ---- the claims on the tasks of loop_split_generator

\* The corners a task handles: the corner of a single task, the corners the walk of a
\* fan task puts on its stack.
TaskFan(data) ==
  IF data.e2l_prev = NULLPTR THEN {data.ml_curr_index}
  ELSE LET w == FanWalkOf(GeneratorState.m, data)
       IN {w.normal[k] : k \in 1..Len(w.normal)}

\* The corners whose loop normal, custom code or space-array entry a step changes.
SlotsWritten ==
  {l \in DOMAIN corner_verts :
     \/ loopnors'[l] # loopnors[l]
     \/ (clnors_data # << >> /\ clnors_data'[l] # clnors_data[l])
     \/ (lspacearr # << >> /\ lspacearr'[l] # lspacearr[l])}

\* C12: the fans of two different tasks of loop_split_generator are disjoint sets of
\* corners, a step that runs tasks writes loop normals, custom codes and space-array
\* entries only at corners of the fans of the tasks it runs, and no corner is handled
\* by two executed tasks.
C12_TaskFansDisjoint ==
  /\ [](\A i, j \in DOMAIN tasks :
          i # j => TaskFan(tasks[i]) \cap TaskFan(tasks[j]) = {})
  /\ [](\A i, j \in DOMAIN executed :
          i # j => \A a \in DOMAIN executed[i].visited, b \in DOMAIN executed[j].visited :
                     executed[i].visited[a] # executed[j].visited[b])
  /\ [][executed' # executed =>
          SlotsWritten \subseteq
            UNION {{executed'[i].visited[k] : k \in DOMAIN executed'[i].visited} :
                     i \in (DOMAIN executed') \ (DOMAIN executed)}]_vars

\* The computation is done with custom codes given, and two fan tasks of at least two
\* corners each have run and written their normals, codes and spaces.
C12_Witness ==
  /\ spc = "done" /\ clnors_data # << >>
  /\ \E i, j \in DOMAIN executed :
       /\ i # j
       /\ Len(executed[i].visited) >= 2 /\ executed[i].data.e2l_prev # NULLPTR
       /\ Len(executed[j].visited) >= 2 /\ executed[j].data.e2l_prev # NULLPTR
       /\ \A l \in TaskFan(executed[i].data) \cup TaskFan(executed[j].data) :
            lspacearr[l] # NULLPTR

\* The scan of loop_split_generator is over.
GeneratorDone == spc \in {"generated", "wait", "done"}

\* C13: once the scan of loop_split_generator is over, every corner is the corner of a
\* single task or a member of the fan of a fan task it created.
C13_TasksCoverEveryCorner ==
  GeneratorDone =>
    \A l \in DOMAIN corner_verts : \E i \in DOMAIN tasks : l \in TaskFan(tasks[i])

\* The scan is over on a mesh with inconsistent winding or a non-manifold edge, and a
\* fan task with more than one corner was created.
C13_Witness ==
  /\ GeneratorDone
  /\ \E e \in DOMAIN edges : Cardinality(EdgeCorners(e)) > 2 \/
       \E a, b \in EdgeCorners(e) : a # b /\ corner_verts[a] = corner_verts[b]
  /\ \E i \in DOMAIN tasks : Cardinality(TaskFan(tasks[i])) > 1

\* The corners at the pivot vertex of corner l that a smooth edge of l links it to:
\* for each of its two edges that is smooth, the corners of the two loops of the edge
\* at that vertex (the loop itself, or the next corner of its polygon).
SmoothLinks(l) ==
  LET v == corner_verts[l]
      smooth == {e \in {corner_edges[l], corner_edges[PrevCorner(l)]} :
                   ~IS_EDGE_SHARP(edge_to_loops[e])}
  IN {IF corner_verts[edge_to_loops[e][i]] = v THEN edge_to_loops[e][i]
      ELSE NextCorner(polys, loop_to_poly, edge_to_loops[e][i]) :
        e \in smooth, i \in {0, 1}}

\* The smooth fan of a set of corners: its closure under SmoothLinks.
RECURSIVE SmoothFan(_)
SmoothFan(S) ==
  LET T == S \cup UNION {SmoothLinks(l) : l \in S}
  IN IF T = S THEN S ELSE SmoothFan(T)

\* A cyclic smooth fan: all edges around the pivot vertex are smooth.
IsCyclicSmoothFan(F) ==
  \A l \in F : /\ ~IS_EDGE_SHARP(edge_to_loops[corner_edges[l]])
               /\ ~IS_EDGE_SHARP(edge_to_loops[corner_edges[PrevCorner(l)]])

\* C14: for every cyclic smooth fan, at any time at most one task starts in the fan,
\* and once the scan is over exactly one does: a fan task starting at the first corner
\* of the fan in scan order, the only corner of the fan for which
\* loop_split_generator_check_cyclic_smooth_fan returned true; the other corners of
\* the fan are skipped.
C14_OneTaskPerCyclicFan ==
  \A l \in DOMAIN corner_verts :
    LET F == SmoothFan({l})
        first == CHOOSE a \in F : \A b \in F : a <= b
        started == {i \in DOMAIN tasks : tasks[i].ml_curr_index \in F}
    IN (spc \in {"generate", "generated", "wait", "done"} /\ IsCyclicSmoothFan(F)) =>
         /\ Cardinality(started) <= 1
         /\ cyclic_found \cap F \subseteq {first}
         /\ \A i \in started : /\ tasks[i].ml_curr_index = first
                               /\ tasks[i].e2l_prev # NULLPTR
                               /\ first \in cyclic_found
                               /\ TaskFan(tasks[i]) = F
         /\ (ml_curr_index > first \/ GeneratorDone) => started # {}
         /\ \A a \in F \ {first} : (ml_curr_index > a \/ GeneratorDone) => skip_loops[a]

\* The scan is over on a mesh with a cyclic smooth fan of at least three corners, whose
\* task was created.
C14_Witness ==
  /\ GeneratorDone
  /\ \E l \in DOMAIN corner_verts :
       /\ IsCyclicSmoothFan(SmoothFan({l}))
       /\ Cardinality(SmoothFan({l})) >= 3
       /\ l \in cyclic_found

\* C15: an executed fan task handles each corner of its smooth fan exactly once, on
\* completion these corners hold one identical loop normal, and for a cyclic smooth fan
\* of n corners the walk ends on its starting edge after n iterations.
C15_FanTaskVisitsEachCornerOnce ==
  \A i \in DOMAIN executed :
    LET x == executed[i]
        F == SmoothFan({x.data.ml_curr_index})
    IN x.data.e2l_prev # NULLPTR =>
         /\ \A a, b \in DOMAIN x.visited : a # b => x.visited[a] # x.visited[b]
         /\ {x.visited[k] : k \in DOMAIN x.visited} = F
         /\ Cardinality(x.lnors) = 1
         /\ IsCyclicSmoothFan(F) => (x.closed /\ x.walked = Cardinality(F))

\* A fan task has run on a cyclic smooth fan of at least three corners, and another on
\* an open fan of at least two.
C15_Witness ==
  /\ \E i \in DOMAIN executed :
       /\ executed[i].data.e2l_prev # NULLPTR
       /\ IsCyclicSmoothFan(SmoothFan({executed[i].data.ml_curr_index}))
       /\ Len(executed[i].visited) >= 3
       /\ executed[i].closed
  /\ \E i \in DOMAIN executed :
       /\ executed[i].data.e2l_prev # NULLPTR
       /\ ~IsCyclicSmoothFan(SmoothFan({executed[i].data.ml_curr_index}))
       /\ Len(executed[i].visited) >= 2

\* C16: when the computation is done without custom normal codes, every corner whose
\* two edges in its own polygon are both sharp was run as a single task, without any
\* fan walk, and its loop normal is the normal of its own polygon.
C16_SharpCornerGetsFaceNormal ==
  (spc = "done" /\ clnors_data = << >>) =>
    \A l \in DOMAIN corner_verts :
      (/\ IS_EDGE_SHARP(edge_to_loops[corner_edges[l]])
       /\ IS_EDGE_SHARP(edge_to_loops[corner_edges[PrevCorner(l)]])) =>
        /\ \E i \in DOMAIN executed :
             /\ executed[i].data.ml_curr_index = l
             /\ executed[i].data.e2l_prev = NULLPTR
             /\ executed[i].walked = 0
             /\ executed[i].visited = <<l>>
        /\ loopnors[l] = polynors[loop_to_poly[l]]

\* C17: after mesh_edges_sharp_tag, the edge of every corner of a flat-shaded polygon
\* is classified sharp; and when the computation is done with all polygons flat-shaded,
\* every loop-normal space created holds exactly one corner and no two corners have
\* the same space.
C17_FlatPolygonsGetSingleSpaces ==
  /\ spc \in {"return", "generate", "generated", "wait", "done"} =>
       \A l \in DOMAIN corner_verts :
         ~polys[loop_to_poly[l]].smooth => IS_EDGE_SHARP(edge_to_loops[corner_edges[l]])
  /\ (spc = "done" /\ lnors_spacearr /\ \A p \in DOMAIN polys : ~polys[p].smooth) =>
       /\ \A s \in DOMAIN lnor_spaces :
            /\ Len(lnor_spaces[s].loops) = 1
            /\ Cardinality({l \in DOMAIN lspacearr : lspacearr[l] = s}) = 1
       /\ \A a, b \in DOMAIN lspacearr :
            (a # b /\ lspacearr[a] # NULLPTR) => lspacearr[a] # lspacearr[b]

\* The tasks run, as the pairs of their corner and their kind (fan or single).
TasksRun(execs) ==
  {<<execs[i].data.ml_curr_index, execs[i].data.e2l_prev # NULLPTR>> : i \in DOMAIN execs}

\* C18: when the pooled path is done, it has run the same single and fan tasks as the
\* sequential path runs on the same input, and the loop normals, the space of each
\* corner and the spaces are the same.
C18_PooledEqualsSequential ==
  (spc = "done" /\ pool) =>
    /\ TasksRun(executed) = TasksRun(sequential.executed)
    /\ loopnors = sequential.m.loopnors
    /\ lspacearr = sequential.m.lspacearr
    /\ lnor_spaces = sequential.m.lnor_spaces

\* C35: on the pooled path every pushed block holds, in its entries 0..k-1, the corner
\* indices of the k tasks the generator created in it, in order, and -1 from entry k
\* on; and a block that loop_split_worker has run has had exactly those k tasks run.
C35_PushedBlockKeepsItsTasks ==
  pool =>
    \A b \in DOMAIN pushed : \A i \in 0..(LOOP_SPLIT_TASK_BLOCK_SIZE - 1) :
      LET j == (b - 1) * LOOP_SPLIT_TASK_BLOCK_SIZE + i + 1
      IN IF j <= Len(tasks)
           THEN /\ pushed[b][i].ml_curr_index = tasks[j].ml_curr_index
                /\ b \in ran => \E x \in DOMAIN executed : executed[x].data = tasks[j]
           ELSE pushed[b][i].ml_curr_index = -1

\* C36: the walks around a vertex end. A fan task makes at least one and at most as
\* many loop iterations as the pivot vertex has corners, and handles in each a different
\* corner of the pivot vertex (so never a negative or unset index). The pre-pass
\* loop_split_generator_check_cyclic_smooth_fan, called for the corner the scan is at,
\* sets skip bits only on corners of the pivot vertex that were not set before, one per
\* iteration, so it returns after at most that many iterations.
C36_WalksEnd ==
  LET around(v) == {l \in DOMAIN corner_verts : corner_verts[l] = v}
      fans == \A i \in DOMAIN executed :
                executed[i].data.e2l_prev # NULLPTR =>
                  LET e == executed[i]
                      pivot == around(corner_verts[e.data.ml_curr_index])
                  IN /\ e.walked >= 1 /\ e.walked <= Cardinality(pivot)
                     /\ Len(e.visited) = e.walked
                     /\ \A k \in DOMAIN e.visited : e.visited[k] \in pivot
                     /\ \A k, n \in DOMAIN e.visited : k # n => e.visited[k] # e.visited[n]
      prepass ==
        LET ml == ml_curr_index
            res == loop_split_generator_check_cyclic_smooth_fan(
                     skip_loops, edge_to_loops[corner_edges[PrevCorner(ml)]], ml,
                     PrevCorner(ml))
            newly == {l \in DOMAIN skip_loops : res.skip_loops[l] /\ ~skip_loops[l]}
        IN (~IS_EDGE_SHARP(edge_to_loops[corner_edges[ml]]) /\ ~skip_loops[ml]) =>
             /\ newly \subseteq around(corner_verts[ml])
             /\ \A l \in DOMAIN skip_loops : skip_loops[l] => res.skip_loops[l]
             /\ res.ret => ml \in newly
  IN /\ fans
     /\ spc = "generate" => prepass

\* BKE_mesh_normals_loop_split is done; the pre-pass found a cyclic smooth fan, and its
\* fan task walked once around a vertex with at least three corners back to its
\* starting edge; another fan task ended on a sharp edge.
C36_Witness ==
  /\ spc = "done"
  /\ cyclic_found # {}
  /\ \E i, j \in DOMAIN executed :
       /\ executed[i].data.e2l_prev # NULLPTR /\ executed[i].closed
       /\ executed[i].walked >= 3
       /\ executed[i].walked =
            Cardinality({l \in DOMAIN corner_verts :
                           corner_verts[l] = corner_verts[executed[i].data.ml_curr_index]})
       /\ executed[j].data.e2l_prev # NULLPTR /\ ~executed[j].closed
       /\ executed[j].walked >= 2

\* C39: for every single-corner task run with space generation, the two reference
\* vectors passed to BKE_lnor_space_define are the unit vectors from the pivot vertex
\* along two distinct edges of the corner's polygon: the edge of the corner itself and
\* the edge of the previous corner of that polygon; and the space the task defined is
\* the one these two vectors give.
C39_SingleTaskReferenceVectors ==
  \A i \in DOMAIN executed :
    LET data == executed[i].data
        ml == data.ml_curr_index
        mv_pivot_index == corner_verts[ml]
        passed == split_loop_nor_single_do_vectors(data)
        own == EdgeVector(corner_edges[ml], mv_pivot_index)
        previous == EdgeVector(corner_edges[PrevCorner(ml)], mv_pivot_index)
    IN (data.e2l_prev = NULLPTR /\ lnors_spacearr) =>
         /\ corner_edges[ml] # corner_edges[PrevCorner(ml)]
         /\ passed.vec_curr = own
         /\ passed.vec_prev = previous
         /\ lnor_spaces[data.lnor_space] =
              BKE_lnor_space_define(lnor_spaces[data.lnor_space], polynors[data.mp_index],
                                    own, previous, << >>)

C27_ZeroSumFanGetsVertexNormal ==
  (spc = "done" /\ clnors_data = << >>) =>
    \A i \in DOMAIN tasks :
      (/\ tasks[i].e2l_prev # NULLPTR
       /\ normalize_v3(FanWalkOf(GeneratorState.m, tasks[i]).lnor) = <<0, 0, 0>>) =>
        \A l \in TaskFan(tasks[i]) :
          loopnors[l] = common_vert_normals[corner_verts[tasks[i].ml_curr_index]]

\* Spaces are generated, and a fan task whose sum is zero has run: it took the vertex
\* normal of its last corner and copied it to its two corners.
C27_Witness ==
  /\ spc = "done" /\ clnors_data = << >> /\ lnors_spacearr
  /\ \E i \in DOMAIN executed :
       /\ executed[i].data.e2l_prev # NULLPTR
       /\ Len(executed[i].visited) = 2
       /\ normalize_v3(FanWalkOf(GeneratorState.m, executed[i].data).lnor) = <<0, 0, 0>>
       /\ lnor_spaces[executed[i].data.lnor_space].vec_lnor =
            common_vert_normals[corner_verts[executed[i].data.ml_curr_index]]

\* C28: with custom normal codes, a fan task whose corners do not all hold the same code
\* overwrites the code of every corner of the fan with the component-wise integer mean
\* of the codes (between the smallest and the largest component, within the signed
\* 16-bit range) and sets the fan's normal to the decoding of that mean; a fan whose
\* codes are all equal keeps them; and when BKE_mesh_normals_loop_split is done the
\* corners of every fan hold one code.
C28_InvalidFanCodesAveraged ==
  /\ [][\A i \in (DOMAIN executed') \ (DOMAIN executed) :
          LET e == executed'[i]
              fan == {e.visited[k] : k \in DOMAIN e.visited}
              RECURSIVE Sum(_, _)
              Sum(k, c) == IF k = 0 THEN 0 ELSE clnors_data[e.visited[k]][c] + Sum(k - 1, c)
              \* the division of C truncates
              mean(c) == IF Sum(Len(e.visited), c) >= 0
                           THEN Sum(Len(e.visited), c) \div Len(e.visited)
                           ELSE -((-Sum(Len(e.visited), c)) \div Len(e.visited))
          IN (clnors_data # << >> /\ e.data.e2l_prev # NULLPTR) =>
               IF \E a, b \in fan : clnors_data[a] # clnors_data[b]
                 THEN /\ \A c \in {0, 1} :
                           /\ \E l \in fan : clnors_data[l][c] <= mean(c)
                           /\ \E l \in fan : clnors_data[l][c] >= mean(c)
                           /\ -SHRT_MAX - 1 <= mean(c) /\ mean(c) <= SHRT_MAX
                      /\ \A l \in fan :
                           /\ clnors_data'[l] = Pair(mean(0), mean(1))
                           /\ loopnors'[l] = BKE_lnor_space_custom_data_to_normal(
                                               lnor_spaces'[e.data.lnor_space],
                                               Pair(mean(0), mean(1)))
                 ELSE \A l \in fan : clnors_data'[l] = clnors_data[l]]_vars
  /\ []((spc = "done" /\ clnors_data # << >>) =>
          \A i \in DOMAIN tasks :
            \A a, b \in TaskFan(tasks[i]) : clnors_data[a] = clnors_data[b])

\* =================================================================== polygon and vertex normals

\* The body of the polygon loop of calculate_normals_poly_and_vert for polygon p of
\* mesh m: the polygon normal by Newell's method, and for each iteration of the
\* accumulation loop the vertex and the angle-weighted normal added to it.
calc_poly(m, p) ==
  LET n == Len(m.pv[p])
      co(i) == m.pos[m.pv[p][i + 1] + 1]
      newell[k \in 0..n] ==
        IF k = 0 THEN <<0, 0, 0>>
        ELSE LET v_prev == co((k + n - 2) % n)
                 v_curr == co(k - 1)
                 s == newell[k - 1]
             IN <<s[1] + (v_prev[2] - v_curr[2]) * (v_prev[3] + v_curr[3]),
                  s[2] + (v_prev[3] - v_curr[3]) * (v_prev[1] + v_curr[1]),
                  s[3] + (v_prev[1] - v_curr[1]) * (v_prev[2] + v_curr[2])>>
      unit == normalize_v3(newell[n])
      pnor == IF unit = <<0, 0, 0>> THEN <<0, 0, 1>> ELSE unit
      iters == [k \in 1..n |->
                  LET i_curr == (k + n - 2) % n
                  IN [vert |-> m.pv[p][i_curr + 1],
                      edvec_prev |-> sub_v3_v3v3(co((i_curr + n - 1) % n), co(i_curr)),
                      edvec_next |-> sub_v3_v3v3(co(i_curr), co(k - 1))]]
      vnor_add(e) ==
        CHOOSE res \in {<<pnor[1] * fac, pnor[2] * fac, pnor[3] * fac>> :
                          fac \in {saacos(e.edvec_prev,
                                          sub_v3_v3v3(<<0, 0, 0>>, e.edvec_next))}} : TRUE
  IN [pnor |-> pnor,
      adds |-> [k \in 1..n |-> [vert |-> iters[k].vert, a |-> vnor_add(iters[k])]]]

\* calculate_normals_poly_and_vert is called on a mesh of two polygons; the vertex
\* normal array comes from BKE_mesh_vertex_normals_for_write and holds whatever the
\* allocation left in it.
InitCalcRun ==
  /\ InitAtomic /\ InitEnsureOf(0, 0) /\ InitSharp /\ InitSplit /\ InitCodec /\ InitCustom
  /\ \E m \in {x \in SplitMeshes : Len(x.pv) = 2} : \E g \in {7, FLT_MAX} :
       /\ calc_mesh = m
       /\ calc_vert_normals = [v \in 0..(Len(m.pos) - 1) |-> <<g, g, g>>]
       /\ calc_poly_normals = [p \in 1..Len(m.pv) |-> <<g, g, g>>]
  /\ calc_phase = "memset"
  /\ calc_zeroed = 0
  /\ calc_taken = {}
  /\ calc_thread = [t \in Threads |-> [pc |-> "idle", todo |-> << >>, vlock |-> 0]]
  /\ calc_added = 0
  /\ calc_observed = << >>
  /\ calc_contended = FALSE

\* memset(vert_normals.data(), 0, ...): the calling thread clears one vertex after the
\* other and goes on to the polygon loop when the last one is cleared.
calc_memset ==
  /\ calc_phase = "memset"
  /\ calc_vert_normals' = [calc_vert_normals EXCEPT ![calc_zeroed] = <<0, 0, 0>>]
  /\ calc_zeroed' = calc_zeroed + 1
  /\ calc_phase' = IF calc_zeroed + 1 = Len(calc_mesh.pos) THEN "polys" ELSE calc_phase
  /\ UNCHANGED <<calc_mesh, calc_poly_normals, calc_taken, calc_thread, calc_added,
                 calc_observed, calc_contended>>
  /\ UNCHANGED <<atomicVars, ensureVars, sharpVars, splitVars, codecVars, customVars>>

parallel_for_joined_NoWait(taken, threads, npolys) == Cardinality(taken) = npolys

\* threading::parallel_for returns when every range has been executed to its end.
parallel_for_joined(taken, threads, npolys) ==
  /\ Cardinality(taken) = npolys
  /\ \A t \in DOMAIN threads : threads[t].pc = "idle" /\ threads[t].todo = << >>

\* A worker of the polygon loop either takes the next range (one polygon: the grain of
\* the source scaled down), computes the polygon normal and the contributions, or
\* starts add_v3_v3_atomic for its next corner: float virtual_lock = r[0].
calc_corner(t) ==
  /\ calc_thread[t].pc = "idle"
  /\ IF calc_thread[t].todo = << >>
       THEN /\ calc_phase = "polys"
            /\ \E p \in (1..Len(calc_mesh.pv)) \ calc_taken :
               \E c \in {calc_poly(calc_mesh, p)} :
                 /\ calc_taken' = calc_taken \cup {p}
                 /\ calc_poly_normals' = [calc_poly_normals EXCEPT ![p] = c.pnor]
                 /\ calc_thread' = [calc_thread EXCEPT ![t].todo = c.adds]
       ELSE /\ calc_thread' =
                 [calc_thread EXCEPT
                    ![t].pc = "L70",
                    ![t].vlock = calc_vert_normals[Head(calc_thread[t].todo).vert][1]]
            /\ UNCHANGED <<calc_taken, calc_poly_normals>>
  /\ UNCHANGED <<calc_mesh, calc_phase, calc_zeroed, calc_vert_normals, calc_added,
                 calc_observed, calc_contended>>
  /\ UNCHANGED <<atomicVars, ensureVars, sharpVars, splitVars, codecVars, customVars>>

\* One iteration of the retry loop of add_v3_v3_atomic on the corner's vertex normal.
calc_add_L70(t) ==
  /\ calc_thread[t].pc = "L70"
  /\ LET v == Head(calc_thread[t].todo).vert
         test_lock == calc_vert_normals[v][1]
     IN /\ calc_vert_normals' =
             [calc_vert_normals EXCEPT
                ![v][1] = atomic_cas_float(test_lock, calc_thread[t].vlock, FLT_MAX)]
        /\ calc_thread' =
             IF LockAcquired(test_lock, calc_thread[t].vlock)
               THEN [calc_thread EXCEPT ![t].pc = "L76"]
               ELSE [calc_thread EXCEPT ![t].vlock = test_lock]
        /\ calc_contended' = (calc_contended \/ test_lock = FLT_MAX)
  /\ UNCHANGED <<calc_mesh, calc_phase, calc_zeroed, calc_poly_normals, calc_taken,
                 calc_added, calc_observed>>
  /\ UNCHANGED <<atomicVars, ensureVars, sharpVars, splitVars, codecVars, customVars>>

\* virtual_lock += a[0]; r[1] += a[1]; r[2] += a[2]; under the lock.
calc_add_L76(t) ==
  /\ calc_thread[t].pc = "L76"
  /\ LET v == Head(calc_thread[t].todo).vert
         a == Head(calc_thread[t].todo).a
     IN /\ calc_vert_normals' =
             [calc_vert_normals EXCEPT ![v][2] = @ + a[2], ![v][3] = @ + a[3]]
        /\ calc_thread' = [calc_thread EXCEPT ![t].pc = "L84", ![t].vlock = @ + a[1]]
  /\ UNCHANGED <<calc_mesh, calc_phase, calc_zeroed, calc_poly_normals, calc_taken,
                 calc_added, calc_observed, calc_contended>>
  /\ UNCHANGED <<atomicVars, ensureVars, sharpVars, splitVars, codecVars, customVars>>

\* The releasing compare-and-swap and the return of add_v3_v3_atomic; the polygon
\* loop returns to its caller when this was the end of the last running range.
calc_add_L84(t) ==
  /\ calc_thread[t].pc = "L84"
  /\ LET v == Head(calc_thread[t].todo).vert IN
       calc_vert_normals' =
         [calc_vert_normals EXCEPT
            ![v][1] = atomic_cas_float(@, FLT_MAX, calc_thread[t].vlock)]
  /\ calc_thread' = [calc_thread EXCEPT ![t].pc = "idle", ![t].todo = Tail(@)]
  /\ calc_added' = calc_added + 1
  /\ calc_phase' = IF calc_phase = "polys"
                      /\ parallel_for_joined(calc_taken, calc_thread', Len(calc_mesh.pv))
                     THEN "verts" ELSE calc_phase
  /\ UNCHANGED <<calc_mesh, calc_zeroed, calc_poly_normals, calc_taken, calc_observed,
                 calc_contended>>
  /\ UNCHANGED <<atomicVars, ensureVars, sharpVars, splitVars, codecVars, customVars>>

\* A worker of the vertex loop normalizes vertex vert_i; a zero sum is replaced by
\* the normalized vertex position.
calc_normalize(vert_i) ==
  /\ calc_phase = "verts"
  /\ vert_i \notin DOMAIN calc_observed
  /\ LET no == calc_vert_normals[vert_i]
         unit == normalize_v3(no)
     IN /\ calc_observed' = calc_observed @@ (vert_i :> no)
        /\ calc_vert_normals' =
             [calc_vert_normals EXCEPT
                ![vert_i] = IF unit = <<0, 0, 0>>
                              THEN normalize_v3(calc_mesh.pos[vert_i + 1]) ELSE unit]
  /\ calc_phase' = IF DOMAIN calc_observed \cup {vert_i} = 0..(Len(calc_mesh.pos) - 1)
                     THEN "done" ELSE calc_phase
  /\ UNCHANGED <<calc_mesh, calc_zeroed, calc_poly_normals, calc_taken, calc_thread,
                 calc_added, calc_contended>>
  /\ UNCHANGED <<atomicVars, ensureVars, sharpVars, splitVars, codecVars, customVars>>

NextCalc ==
  \/ calc_memset
  \/ \E t \in Threads :
       \/ calc_corner(t) \/ calc_add_L70(t) \/ calc_add_L76(t) \/ calc_add_L84(t)
  \/ \E vert_i \in DOMAIN calc_vert_normals : calc_normalize(vert_i)

\* C32: in calculate_normals_poly_and_vert every vertex accumulator is zeroed before a
\* worker takes a polygon or adds a contribution; a vertex is normalized only after
\* every contribution of every polygon corner has been added and every worker of the
\* polygon loop has returned; so the value the normalization reads is the complete
\* angle-weighted sum of the vertex, never the lock sentinel or a partial sum.
C32_PhasesOrdered ==
  LET m == calc_mesh
      np == Len(m.pv)
      contribs == [p \in 1..np |-> calc_poly(m, p).adds]
      \* what polygon p adds to component i of vertex v (a vertex is on a polygon once)
      share(p, v, i) ==
        LET ks == {k \in DOMAIN contribs[p] : contribs[p][k].vert = v}
        IN IF ks = {} THEN 0 ELSE contribs[p][CHOOSE k \in ks : TRUE].a[i]
      total(v, i) ==
        LET part[p \in 0..np] == IF p = 0 THEN 0 ELSE part[p - 1] + share(p, v, i)
        IN part[np]
      corners == LET part[p \in 0..np] == IF p = 0 THEN 0 ELSE part[p - 1] + Len(m.pv[p])
                 IN part[np]
      working == \E t \in Threads : calc_thread[t].pc # "idle" \/ calc_thread[t].todo # << >>
  IN /\ (working \/ calc_taken # {} \/ calc_added > 0) => calc_zeroed = Len(m.pos)
     /\ calc_observed # << >> => (~working /\ calc_added = corners)
     /\ \A v \in DOMAIN calc_observed :
          /\ calc_observed[v][1] # FLT_MAX
          /\ \A i \in 1..3 : calc_observed[v][i] = total(v, i)

\* Every vertex has been normalized; during the polygon loop a worker spun on a locked
\* accumulator; some vertex had a non-zero sum and some vertex got the sum of two polygons.
C32_Witness ==
  /\ calc_phase = "done"
  /\ calc_contended
  /\ \E v \in DOMAIN calc_observed : calc_observed[v] # <<0, 0, 0>>
  /\ \E v \in DOMAIN calc_observed :
       \A p \in 1..2 : \E k \in 1..4 : calc_mesh.pv[p][k] = v

\* =================================================================== without split normals

\* BKE_mesh_normals_loop_split called with use_split_normals false (and so without
\* r_lnors_spacearr) on one of SplitMeshes, with a shading, flagged edges and optional
\* custom normal codes: the state at the entry of the loop of lines 1541-1557.
\* edge_to_loops is not allocated.
InitUnsplitRun ==
  /\ InitAtomic /\ InitCalc /\ InitEnsureOf(0, 0) /\ InitCodec
  /\ \E m \in SplitMeshes :
     \E smooth \in [0..(Len(m.pv) - 1) -> BOOLEAN] :
     \E flagged \in {f \in SUBSET {0, 1} : Cardinality(f) <= MaxSharpFlags} :
     \E kind \in {"none", "mixed"} :
       LET np == Len(m.pv)
           ps == PolysOf(m.pv, smooth)
           cv == CornerVertsOf(m.pv)
           l2p == build_loop_to_poly_map(ps, Len(Flatten(m.pv)))
           keys == EdgeKeys(ps, cv, l2p, 0, << >>)
           es == EdgesOf(keys, flagged)
       IN /\ polys = ps
          /\ corner_verts = cv
          /\ loop_to_poly = l2p
          /\ edges = es
          /\ edges_in = es
          /\ corner_edges = CornerEdgesOf(ps, cv, l2p, keys)
          /\ polynors = [p \in 0..(np - 1) |-> m.nors[p + 1]]
          /\ common_vert_normals = VertNormalsOf(cv)
          /\ positions = [v \in 0..(Len(m.pos) - 1) |-> m.pos[v + 1]]
          /\ has_clnors = (kind # "none")
          /\ loopnors = [l \in DOMAIN cv |-> <<0, 0, 0>>]
          /\ clnors_data = ClnorsOf(kind, Len(Flatten(m.pv)))
  /\ use_split_normals = FALSE
  /\ spc = "fill"
  /\ entry = "loop_split"
  /\ split_angle = M_PI
  /\ check_angle = FALSE
  /\ do_sharp_edges_tag = FALSE
  /\ edge_to_loops = << >>
  /\ sharp_edges = << >>
  /\ ml_curr_index = 0
  /\ lnors_spacearr = FALSE
  /\ lspacearr = << >>
  /\ lnor_spaces = << >>
  /\ pool = FALSE
  /\ skip_loops = << >>
  /\ data_buff = << >>
  /\ data_idx = 0
  /\ pushed = << >>
  /\ ran = {}
  /\ tasks = << >>
  /\ executed = << >>
  /\ cyclic_found = {}
  /\ sequential = << >>
  /\ rpc = "idle"
  /\ use_vertices = FALSE
  /\ r_custom_loopnors = << >>
  /\ r_clnors_data = << >>
  /\ done_loops = << >>
  /\ custom_in = << >>
  /\ lnors_first = << >>
  /\ marked = {}
  /\ split_calls = 0
  /\ writes = << >>

\* A loop that takes the vertex normal for every corner.
BKE_mesh_normals_loop_split_fill_AllSmooth ==
  /\ spc = "fill" /\ ~use_split_normals
  /\ loopnors' = [loopnors EXCEPT ![ml_curr_index] =
                    common_vert_normals[corner_verts[ml_curr_index]]]
  /\ ml_curr_index' = ml_curr_index + 1
  /\ spc' = IF ml_curr_index + 1 = NumLoops THEN "done" ELSE "fill"
  /\ UNCHANGED <<entry, polys, corner_verts, corner_edges, edges, polynors,
                 common_vert_normals, loop_to_poly, split_angle, has_clnors, check_angle,
                 do_sharp_edges_tag, edge_to_loops, sharp_edges, edges_in>>
  /\ UNCHANGED splitVars
  /\ UNCHANGED nonMeshVars

\* One iteration of the inner loop of lines 1541-1557, corner ml_curr_index (ml_index in
\* the source) of polygon mp_index; the function returns after the last one.
BKE_mesh_normals_loop_split_fill ==
  /\ spc = "fill" /\ ~use_split_normals
  /\ LET mp_index == loop_to_poly[ml_curr_index]
         is_poly_flat == ~polys[mp_index].smooth
     IN loopnors' = [loopnors EXCEPT ![ml_curr_index] =
                       IF is_poly_flat THEN polynors[mp_index]
                       ELSE common_vert_normals[corner_verts[ml_curr_index]]]
  /\ ml_curr_index' = ml_curr_index + 1
  /\ spc' = IF ml_curr_index + 1 = NumLoops THEN "done" ELSE "fill"
  /\ UNCHANGED <<entry, polys, corner_verts, corner_edges, edges, polynors,
                 common_vert_normals, loop_to_poly, split_angle, has_clnors, check_angle,
                 do_sharp_edges_tag, edge_to_loops, sharp_edges, edges_in>>
  /\ UNCHANGED splitVars
  /\ UNCHANGED nonMeshVars

NextUnsplit == BKE_mesh_normals_loop_split_fill

\* C29: with use_split_normals false, when BKE_mesh_normals_loop_split returns every
\* corner of a flat polygon holds the polygon's normal and every corner of a smooth
\* polygon holds the vertex normal of its vertex; and no step does anything else: no
\* edge is classified (edge_to_loops is never allocated), no edge flag, space, space
\* array entry or custom normal code changes, and no task is created.
C29_UnsplitFillsFaceOrVertexNormals ==
  /\ [](spc = "done" =>
          \A l \in DOMAIN corner_verts :
            loopnors[l] = IF polys[loop_to_poly[l]].smooth
                            THEN common_vert_normals[corner_verts[l]]
                            ELSE polynors[loop_to_poly[l]])
  /\ [](edge_to_loops = << >> /\ lspacearr = << >> /\ lnor_spaces = << >> /\ tasks = << >>)
  /\ [][/\ edges' = edges
        /\ clnors_data' = clnors_data
        /\ \A l \in DOMAIN loopnors : l # ml_curr_index => loopnors'[l] = loopnors[l]]_vars

\* The function has returned on a mesh with a flat and a smooth polygon sharing a
\* vertex whose normal differs from the flat polygon's normal, with custom codes given.
C29_Witness ==
  /\ spc = "done" /\ ~use_split_normals /\ clnors_data # << >>
  /\ \E a, b \in DOMAIN corner_verts :
       /\ corner_verts[a] = corner_verts[b]
       /\ ~polys[loop_to_poly[a]].smooth /\ polys[loop_to_poly[b]].smooth
       /\ loopnors[a] = polynors[loop_to_poly[a]]
       /\ loopnors[b] = common_vert_normals[corner_verts[b]]
       /\ loopnors[a] # loopnors[b]

\* =================================================================== custom normal reconciliation

\* The r_custom_loopnors arrays passed in, one entry per corner or (use_vertices) per
\* vertex: all zero, all the same direction, one direction on the last polygon and
\* another elsewhere, one direction on the first entry only and another elsewhere, or
\* two directions alternating.
CustomTargets(pattern, n, in_last) ==
  [i \in 0..(n - 1) |->
     CASE pattern = "zero" -> <<0, 0, 0>>
       [] pattern = "up" -> <<0, 0, 1>>
       [] pattern = "lastpoly" -> IF in_last[i] THEN <<1, 0, 0>> ELSE <<0, 0, 1>>
       [] pattern = "first" -> IF i = 0 THEN <<1, 0, 0>> ELSE <<0, 0, 1>>
       [] OTHER -> IF i % 2 = 0 THEN <<0, 0, 1>> ELSE <<0, 1, 1>>]

\* mesh_normals_loop_custom_set called on one of SplitMeshes with a shading, flagged
\* edges, targets per corner or per vertex, and an r_clnors_data array that is zeroed
\* (mesh_set_custom_normals) or holds the caller's earlier codes: the state at the call
\* of mesh_edges_sharp_tag of the first BKE_mesh_normals_loop_split (lines 1695-1712),
\* which gets split angle M_PI, &lnors_spacearr and no codes.
InitCustomRun ==
  /\ InitAtomic /\ InitCalc /\ InitEnsureOf(0, 0) /\ InitCodec
  /\ \E m \in SplitMeshes :
     \E shading \in {"smooth", "first flat"} :
     \E flagged \in {f \in SUBSET {0, 1} : Cardinality(f) <= MaxSharpFlags} :
     \E by_vertex \in BOOLEAN :
     \E pattern \in {"zero", "up", "lastpoly", "first", "alternate"} :
     \E stale \in BOOLEAN :
       LET np == Len(m.pv)
           ps == PolysOf(m.pv, [p \in 0..(np - 1) |->
                                  shading = "smooth" \/ (shading = "first flat" /\ p > 0)])
           cv == CornerVertsOf(m.pv)
           numLoops == Len(Flatten(m.pv))
           l2p == build_loop_to_poly_map(ps, numLoops)
           keys == EdgeKeys(ps, cv, l2p, 0, << >>)
           es == EdgesOf(keys, flagged)
           last == {m.pv[np][k] : k \in 1..Len(m.pv[np])}
       IN /\ polys = ps
          /\ corner_verts = cv
          /\ loop_to_poly = l2p
          /\ edges = es
          /\ edges_in = es
          /\ corner_edges = CornerEdgesOf(ps, cv, l2p, keys)
          /\ polynors = [p \in 0..(np - 1) |-> m.nors[p + 1]]
          /\ common_vert_normals = VertNormalsOf(cv)
          /\ positions = [v \in 0..(Len(m.pos) - 1) |-> m.pos[v + 1]]
          /\ edge_to_loops = CallocEdgeToLoops(es)
          /\ loopnors = [l \in DOMAIN cv |-> <<0, 0, 0>>]
          /\ lspacearr = [l \in DOMAIN cv |-> NULLPTR]
          /\ use_vertices = by_vertex
          /\ custom_in = IF by_vertex
                           THEN CustomTargets(pattern, Len(m.pos), [v \in 0..(Len(m.pos) - 1) |-> v \in last])
                           ELSE CustomTargets(pattern, numLoops, [l \in 0..(numLoops - 1) |-> l2p[l] = np - 1])
          /\ r_custom_loopnors = custom_in
          /\ r_clnors_data = IF stale THEN ClnorsOf("same", numLoops)
                             ELSE [l \in 0..(numLoops - 1) |-> Pair(0, 0)]
          /\ done_loops = [l \in 0..(numLoops - 1) |-> FALSE]
          /\ lnors_first = << >>
          /\ writes = [l \in 0..(numLoops - 1) |-> 0]
  /\ use_split_normals = TRUE
  /\ rpc = "split1"
  /\ split_calls = 1
  /\ marked = {}
  /\ split_angle = M_PI
  /\ has_clnors = FALSE
  /\ check_angle = CheckAngle(M_PI, FALSE)
  /\ clnors_data = << >>
  /\ lnors_spacearr = TRUE
  /\ spc = "scan"
  /\ entry = "loop_split"
  /\ do_sharp_edges_tag = FALSE
  /\ sharp_edges = << >>
  /\ ml_curr_index = 0
  /\ lnor_spaces = << >>
  /\ pool = FALSE
  /\ skip_loops = << >>
  /\ data_buff = << >>
  /\ data_idx = 0
  /\ pushed = << >>
  /\ ran = {}
  /\ tasks = << >>
  /\ executed = << >>
  /\ cyclic_found = {}
  /\ sequential = << >>

RunsSplitAgain_Never(uv) == FALSE

\* if (!use_vertices): the fan check and the second BKE_mesh_normals_loop_split.
RunsSplitAgain(uv) == ~uv

\* The edge tagged sharp when the member lidx of a fan deviates, corner_prev being the
\* member handled before it (lines 1777-1782 and 1804-1809).
SharpEdgeBetween(corner_prev, lidx) ==
  LET mlp == PrevCorner(lidx)
      edge == corner_edges[lidx]
      edge_p == corner_edges[mlp]
      prev_edge == corner_edges[corner_prev]
  IN IF prev_edge = edge_p THEN prev_edge ELSE edge

\* The fan check without the comparison of the last member with the first.
custom_set_fan_check_NoWrapAround(st, i) ==
  LET differs(a, b) == a = <<0, 0, 0>> \/ b = <<0, 0, 0>> \/ normalize_v3(a) # normalize_v3(b)
      loops == lnor_spaces[lspacearr[i]].loops
      event(corner_prev, lidx) ==
        [edge |-> SharpEdgeBetween(corner_prev, lidx), prev |-> corner_prev, cur |-> lidx,
         loops |-> loops, was_sharp |-> edges[SharpEdgeBetween(corner_prev, lidx)].sharp]
      RECURSIVE walk(_, _, _)
      \* the members from the k-th on; org_nor is the reference, acc the events
      walk(k, org_nor, acc) ==
        IF k > Len(loops) THEN [org_nor |-> org_nor, events |-> acc]
        ELSE LET nor == st.r_custom_loopnors[loops[k]]
             IN IF k > 1 /\ differs(org_nor, nor)
                  THEN walk(k + 1, nor, acc \cup {event(loops[k - 1], loops[k])})
                  ELSE walk(k + 1, IF k = 1 THEN nor ELSE org_nor, acc)
      walked == walk(1, <<0, 0, 0>>, {})
      wrapped == walked.events
  IN IF lspacearr[i] = NULLPTR
       THEN [st EXCEPT !.done_loops[i] = TRUE]
     ELSE IF st.done_loops[i]
       THEN st
     ELSE IF lnor_spaces[lspacearr[i]].is_single
       THEN [st EXCEPT !.done_loops[i] = TRUE]
     ELSE [st EXCEPT !.done_loops = [l \in DOMAIN st.done_loops |->
                                       st.done_loops[l] \/ \E k \in 1..Len(loops) : loops[k] = l],
                     !.marked = st.marked \cup wrapped]

\* One iteration of the loop of lines 1739-1815, corner i, on st: the done_loops bits,
\* the tagging events so far (the edge and whether it had ME_SHARP, the two members
\* compared and their fan) and the targets.
\* For directions dot_v3v3(org_nor, nor) < LNOR_SPACE_TRIGO_THRESHOLD holds exactly when
\* they differ.
custom_set_fan_check(st, i) ==
  LET differs(a, b) == a = <<0, 0, 0>> \/ b = <<0, 0, 0>> \/ normalize_v3(a) # normalize_v3(b)
      loops == lnor_spaces[lspacearr[i]].loops
      event(corner_prev, lidx) ==
        [edge |-> SharpEdgeBetween(corner_prev, lidx), prev |-> corner_prev, cur |-> lidx,
         loops |-> loops, was_sharp |-> edges[SharpEdgeBetween(corner_prev, lidx)].sharp]
      RECURSIVE walk(_, _, _)
      \* the members from the k-th on; org_nor is the reference, acc the events
      walk(k, org_nor, acc) ==
        IF k > Len(loops) THEN [org_nor |-> org_nor, events |-> acc]
        ELSE LET nor == st.r_custom_loopnors[loops[k]]
             IN IF k > 1 /\ differs(org_nor, nor)
                  THEN walk(k + 1, nor, acc \cup {event(loops[k - 1], loops[k])})
                  ELSE walk(k + 1, IF k = 1 THEN nor ELSE org_nor, acc)
      walked == walk(1, <<0, 0, 0>>, {})
      \* the check between last and first loops
      wrapped == IF differs(walked.org_nor, st.r_custom_loopnors[loops[1]])
                   THEN walked.events \cup {event(loops[Len(loops)], loops[1])}
                   ELSE walked.events
  IN IF lspacearr[i] = NULLPTR
       THEN [st EXCEPT !.done_loops[i] = TRUE]
     ELSE IF st.done_loops[i]
       THEN st
     ELSE IF lnor_spaces[lspacearr[i]].is_single
       THEN [st EXCEPT !.done_loops[i] = TRUE]
     ELSE [st EXCEPT !.done_loops = [l \in DOMAIN st.done_loops |->
                                       st.done_loops[l] \/ \E k \in 1..Len(loops) : loops[k] = l],
                     !.marked = st.marked \cup wrapped]

\* mesh_normals_loop_custom_set from the return of the first BKE_mesh_normals_loop_split
\* to the call of mesh_edges_sharp_tag of the second one (lines 1714-1836), or, with
\* use_vertices, to the encoding loop: the zero targets get their defaults, the fans of
\* the first computation are checked and edges tagged sharp, the space array is
\* cleared and initialised again, edge_to_loops is allocated again.
mesh_normals_loop_custom_set_sharpen ==
  /\ rpc = "split1" /\ spc = "done"
  /\ r_custom_loopnors' =
       [i \in DOMAIN r_custom_loopnors |->
          IF r_custom_loopnors[i] # <<0, 0, 0>> THEN r_custom_loopnors[i]
          ELSE IF use_vertices THEN common_vert_normals[i] ELSE loopnors[i]]
  /\ lnors_first' = loopnors
  /\ IF RunsSplitAgain(use_vertices)
       THEN LET RECURSIVE check_from(_, _)
                check_from(st, i) ==
                  IF i = NumLoops THEN st
                  ELSE CHOOSE out \in {check_from(s2, i + 1) :
                                         s2 \in {custom_set_fan_check(st, i)}} : TRUE
            IN \E res \in {check_from([done_loops |-> done_loops, marked |-> marked,
                                        r_custom_loopnors |-> r_custom_loopnors'], 0)} :
                 /\ done_loops' = res.done_loops
                 /\ marked' = res.marked
                 /\ \E es \in {[e \in DOMAIN edges |->
                                  [edges[e] EXCEPT !.sharp =
                                     @ \/ \E ev \in res.marked : ev.edge = e]]} :
                      /\ edges' = es
                      /\ edges_in' = es
                      /\ edge_to_loops' = CallocEdgeToLoops(es)
                 /\ lspacearr' = [l \in DOMAIN lspacearr |-> NULLPTR]
                 /\ lnor_spaces' = << >>
                 /\ pool' = FALSE
                 /\ skip_loops' = << >>
                 /\ data_buff' = << >>
                 /\ data_idx' = 0
                 /\ pushed' = << >>
                 /\ ran' = {}
                 /\ tasks' = << >>
                 /\ executed' = << >>
                 /\ cyclic_found' = {}
                 /\ sequential' = << >>
                 /\ ml_curr_index' = 0
                 /\ spc' = "scan"
                 /\ split_calls' = split_calls + 1
                 /\ rpc' = "split2"
       ELSE /\ done_loops' = [l \in DOMAIN done_loops |-> TRUE]
            /\ rpc' = "encode"
            /\ UNCHANGED <<marked, edges, edges_in, edge_to_loops, lspacearr, lnor_spaces,
                           pool, skip_loops, data_buff, data_idx, pushed, ran, tasks,
                           executed, cyclic_found, sequential, ml_curr_index, spc,
                           split_calls>>
  /\ UNCHANGED <<entry, polys, corner_verts, corner_edges, polynors, common_vert_normals,
                 loop_to_poly, split_angle, has_clnors, check_angle, do_sharp_edges_tag,
                 sharp_edges, loopnors, positions, lnors_spacearr, clnors_data>>
  /\ UNCHANGED <<use_split_normals, use_vertices, r_clnors_data, custom_in, writes>>
  /\ UNCHANGED <<atomicVars, ensureVars, codecVars, calcVars>>

\* An encoding loop that leaves the done bits of the other members of a fan set.
custom_set_encode_KeepDone(st, i) ==
  LET space == lnor_spaces[lspacearr[i]]
      nor(l) == r_custom_loopnors[IF use_vertices THEN corner_verts[l] ELSE l]
      code == BKE_lnor_space_custom_normal_to_data(space, nor(i))
      members == {space.loops[k] : k \in 1..Len(space.loops)}
  IN IF lspacearr[i] = NULLPTR
       THEN [st EXCEPT !.done_loops[i] = FALSE]
     ELSE IF ~st.done_loops[i]
       THEN st
     ELSE CHOOSE out \in
            {[done_loops |-> [st.done_loops EXCEPT ![i] = FALSE],
              r_clnors_data |-> [l \in DOMAIN st.r_clnors_data |->
                                   IF l \in members THEN c ELSE st.r_clnors_data[l]],
              writes |-> [l \in DOMAIN st.writes |->
                            IF l \in members THEN st.writes[l] + 1 ELSE st.writes[l]]] :
               c \in {code}} : TRUE

\* One iteration of the loop of lines 1842-1895, corner i, on st: the done_loops bits,
\* r_clnors_data and the number of writes of each entry. avg_nor is the sum of the
\* targets of the members times 1.0f / avg_nor_count; the encoder takes it as a
\* direction.
custom_set_encode(st, i) ==
  LET space == lnor_spaces[lspacearr[i]]
      loops == space.loops
      nor(l) == r_custom_loopnors[IF use_vertices THEN corner_verts[l] ELSE l]
      members == {loops[k] : k \in 1..Len(loops)}
      RECURSIVE add_from(_)
      add_from(k) == IF k > Len(loops) THEN <<0, 0, 0>>
                     ELSE madd_v3_v3fl(add_from(k + 1), unit_v3(nor(loops[k])), 1)
      avg_nor == IF \A a, b \in members : nor(a) = nor(b) THEN nor(loops[1])
                 ELSE normalize_v3(add_from(1))
      code == BKE_lnor_space_custom_normal_to_data(
                space, IF space.is_single THEN nor(i) ELSE avg_nor)
      written == IF space.is_single THEN {i} ELSE members
  IN IF lspacearr[i] = NULLPTR
       THEN [st EXCEPT !.done_loops[i] = FALSE]
     ELSE IF ~st.done_loops[i]
       THEN st
     ELSE CHOOSE out \in
            {[done_loops |-> [l \in DOMAIN st.done_loops |->
                                st.done_loops[l] /\ l \notin written],
              r_clnors_data |-> [l \in DOMAIN st.r_clnors_data |->
                                   IF l \in written THEN c ELSE st.r_clnors_data[l]],
              writes |-> [l \in DOMAIN st.writes |->
                            IF l \in written THEN st.writes[l] + 1 ELSE st.writes[l]]] :
               c \in {code}} : TRUE

\* mesh_normals_loop_custom_set from the return of the last BKE_mesh_normals_loop_split
\* to its own return: the encoding loop (lines 1842-1895).
mesh_normals_loop_custom_set_encode ==
  /\ rpc \in {"split2", "encode"} /\ spc = "done"
  /\ LET RECURSIVE encode_from(_, _)
         encode_from(st, i) ==
           IF i = NumLoops THEN st
           ELSE CHOOSE out \in {encode_from(s2, i + 1) :
                                  s2 \in {custom_set_encode(st, i)}} : TRUE
     IN \E res \in {encode_from([done_loops |-> done_loops, r_clnors_data |-> r_clnors_data,
                                 writes |-> writes], 0)} :
          /\ done_loops' = res.done_loops
          /\ r_clnors_data' = res.r_clnors_data
          /\ writes' = res.writes
  /\ rpc' = "done"
  /\ UNCHANGED <<use_split_normals, use_vertices, r_custom_loopnors, custom_in, lnors_first,
                 marked, split_calls>>
  /\ UNCHANGED sharpVars
  /\ UNCHANGED splitVars
  /\ UNCHANGED <<atomicVars, ensureVars, codecVars, calcVars>>

NextCustom ==
  \/ NextSplit
  \/ mesh_normals_loop_custom_set_sharpen
  \/ mesh_normals_loop_custom_set_encode


\* ---- the claims on the reconciliation

ReconciliationDone == rpc = "done"

\* C23 as stated: every reconciliation call, per corner or per vertex, has run
\* BKE_mesh_normals_loop_split exactly twice when it returns.
C23_SplitRunsTwice == ReconciliationDone => split_calls = 2

\* C23, amended: a per-corner reconciliation runs BKE_mesh_normals_loop_split exactly
\* twice, once before and once after the sharp-edge insertion, and a per-vertex one runs
\* it exactly once and inserts no sharp edge; in both modes the codes are written only
\* after the last run has returned, in the step that ends the call.
C23_SplitRunsTwicePerCorner ==
  /\ [](ReconciliationDone => split_calls = IF use_vertices THEN 1 ELSE 2)
  /\ [][r_clnors_data' # r_clnors_data =>
          /\ spc = "done" /\ rpc' = "done"
          /\ split_calls = IF use_vertices THEN 1 ELSE 2]_vars
  /\ [][edges' # edges => (~use_vertices /\ split_calls = 1 /\ split_calls' = 2)]_vars

\* A per-vertex reconciliation has returned after one run of the pipeline, having
\* written a code that is not zero; no edge was tagged.
C23_Witness ==
  /\ ReconciliationDone /\ use_vertices /\ split_calls = 1
  /\ edges = edges_in /\ marked = {}
  /\ \E l \in DOMAIN r_clnors_data : writes[l] = 1 /\ r_clnors_data[l] # Pair(0, 0)


\* C24: in per-corner reconciliation every edge newly given ME_SHARP is an edge shared
\* by the polygons of the two fan members compared (the previous and the current member
\* of the walk, or the last and the first member in the wrap-around check), whose
\* targets deviate; no edge between two members of the fan whose targets agree is
\* tagged, in open fans as in cyclic ones.
C24_SharpOnlyBetweenDeviatingMembers ==
  \A ev \in marked :
    ~ev.was_sharp =>
      LET uses(l) == \E c \in DOMAIN corner_edges :
                       corner_edges[c] = ev.edge /\ loop_to_poly[c] = loop_to_poly[l]
          members == {ev.loops[k] : k \in 1..Len(ev.loops)}
      IN /\ uses(ev.prev) /\ uses(ev.cur)
         /\ \A a, b \in members :
              (loop_to_poly[a] # loop_to_poly[b] /\ uses(a) /\ uses(b)) =>
                r_custom_loopnors[a] # r_custom_loopnors[b]


C26_DefaultTargetsGiveZeroCodes ==
  (/\ ReconciliationDone
   /\ \A i \in DOMAIN custom_in :
        \/ custom_in[i] = <<0, 0, 0>>
        \/ custom_in[i] = IF use_vertices THEN common_vert_normals[i] ELSE lnors_first[i]) =>
    /\ marked = {}
    /\ \A l \in DOMAIN r_clnors_data : r_clnors_data[l] = Pair(0, 0)

\* BKE_edges_sharp_from_angle_set returns to its caller.
BKE_edges_sharp_from_angle_set_return == entry = "from_angle" /\ sharp_return

\* Calls of BKE_edges_sharp_from_angle_set, and reconciliation calls.
NextFlags ==
  \/ BKE_edges_sharp_from_angle_set
  \/ BKE_edges_sharp_from_angle_set_return
  \/ NextCustom

\* C37: reconciliation and BKE_edges_sharp_from_angle_set only set sharp flags. No step
\* of either clears the flag of an edge; when BKE_edges_sharp_from_angle_set returns and
\* throughout a reconciliation every edge flagged in the mesh passed in is flagged; and
\* in per-vertex reconciliation the edges stay exactly as passed in.
C37_SharpFlagsOnlySet ==
  /\ [][\A e \in DOMAIN edges :
          (e \in DOMAIN edges' /\ edges[e].sharp) => edges'[e].sharp]_vars
  /\ []((entry = "from_angle" \/ rpc # "idle") =>
          \A e \in DOMAIN edges_in : edges_in[e].sharp => edges[e].sharp)
  /\ []((rpc # "idle" /\ use_vertices) => edges = edges_in)
  /\ []((rpc # "idle" /\ ~use_vertices) =>
          \A e \in DOMAIN edges :
            edges[e].sharp =>
              (edges_in[e].sharp \/ \E ev \in marked : ev.edge = e))

\* A per-corner reconciliation has returned on a mesh that had a flagged edge: that
\* edge is still flagged and a further edge was given the flag.
C37_Witness ==
  /\ rpc = "done" /\ ~use_vertices
  /\ \E ev \in marked : ~ev.was_sharp /\ edges[ev.edge].sharp
  /\ \E e \in DOMAIN edges :
       edges[e].sharp /\ \A ev \in marked : ev.edge # e

\* C38: after the second pipeline run of a per-corner reconciliation every loop-normal
\* space holds only corners whose targets agree with one reference target among them:
\* two corners whose targets deviate beyond the threshold never share a final space.
C38_FinalFansMatchTargets ==
  (~use_vertices /\ split_calls = 2 /\ spc = "done" /\ rpc \in {"split2", "done"}) =>
    \A s \in DOMAIN lnor_spaces :
      LET loops == lnor_spaces[s].loops
          agree(a, b) == a # <<0, 0, 0>> /\ b # <<0, 0, 0>> /\ normalize_v3(a) = normalize_v3(b)
      IN /\ Len(loops) > 0 =>
              \E ref \in 1..Len(loops) : \A k \in 1..Len(loops) :
                agree(r_custom_loopnors[loops[ref]], r_custom_loopnors[loops[k]])
         /\ \A k \in 1..Len(loops) : lspacearr[loops[k]] = s

\* A per-corner reconciliation has returned; the fan check found deviating targets in
\* a fan of at least three corners and tagged an edge, and after the second run two
\* corners of that fan share a space and two others do not.
C38_Witness ==
  /\ rpc = "done" /\ ~use_vertices /\ split_calls = 2
  /\ \E ev \in marked :
       /\ ~ev.was_sharp /\ Len(ev.loops) >= 3
       /\ \E a, b, c \in {ev.loops[k] : k \in 1..Len(ev.loops)} :
            /\ a # b
            /\ lspacearr[a] # NULLPTR /\ lspacearr[a] = lspacearr[b]
            /\ r_custom_loopnors[a] = r_custom_loopnors[b]
            /\ lspacearr[c] # NULLPTR /\ lspacearr[c] # lspacearr[a]
            /\ r_custom_loopnors[c] # r_custom_loopnors[a]

\* =================================================================== custom normal codec

\* The normals and edge directions handed to the codec.
CodecNormals == {<<0, 0, 1>>, <<1, 0, 1>>, <<0, 1, 0>>}

CodecEdgeVectors == {<<1, 0, 0>>, <<0, 1, 0>>, <<0, 0, 1>>, <<-1, 0, 0>>}

CodecCustomNormals ==
  {<<0, 0, 0>>, <<0, 0, 1>>, <<1, 0, 1>>, <<0, 1, 0>>, <<1, 0, 0>>, <<1, 1, 0>>, <<0, 0, -1>>,
   <<1, 1, 1>>, <<-1, 0, 0>>, <<0, -1, 0>>, <<1, 0, -1>>, <<-1, -1, 0>>, <<0, 1, 1>>,
   <<1, -1, 1>>, <<-1, 1, -1>>, <<1, 2, 2>>, <<-2, 1, 0>>}

\* A space fresh from BKE_lnor_space_create, about to be defined from lnor, vec_ref and
\* vec_other, and a custom normal to encode in it.
InitCodecRun ==
  /\ InitAtomic /\ InitCalc /\ InitEnsureOf(0, 0) /\ InitSharp /\ InitSplit /\ InitCustom
  /\ cpc = "define"
  /\ \E lnor \in CodecNormals : \E vec_ref, vec_other \in CodecEdgeVectors :
       space_args = [lnor |-> lnor, vec_ref |-> vec_ref, vec_other |-> vec_other]
  /\ codec_space = BKE_lnor_space_create(<< >>)[1]
  /\ codec_custom_lnor \in CodecCustomNormals
  /\ codec_r_clnor_data = << >>
  /\ codec_clnor_data = << >>
  /\ codec_r_custom_lnor = << >>

call_BKE_lnor_space_define ==
  /\ cpc = "define"
  /\ codec_space' = BKE_lnor_space_define(codec_space, space_args.lnor, space_args.vec_ref,
                                         space_args.vec_other, << >>)
  /\ cpc' = "encode"
  /\ UNCHANGED <<space_args, codec_custom_lnor, codec_r_clnor_data, codec_clnor_data, codec_r_custom_lnor>>
  /\ UNCHANGED nonCodecVars

call_BKE_lnor_space_custom_normal_to_data ==
  /\ cpc = "encode"
  /\ codec_r_clnor_data' = BKE_lnor_space_custom_normal_to_data(codec_space, codec_custom_lnor)
  /\ cpc' = "decode"
  /\ UNCHANGED <<space_args, codec_space, codec_custom_lnor, codec_clnor_data, codec_r_custom_lnor>>
  /\ UNCHANGED nonCodecVars

\* BKE_lnor_space_custom_data_to_normal on the code just produced or on the code (0,0).
call_BKE_lnor_space_custom_data_to_normal ==
  /\ cpc = "decode"
  /\ \E code \in {codec_r_clnor_data, Pair(0, 0)} :
       /\ codec_clnor_data' = code
       /\ codec_r_custom_lnor' = BKE_lnor_space_custom_data_to_normal(codec_space, code)
  /\ cpc' = "done"
  /\ UNCHANGED <<space_args, codec_space, codec_custom_lnor, codec_r_clnor_data>>
  /\ UNCHANGED nonCodecVars

NextCodec ==
  \/ call_BKE_lnor_space_define
  \/ call_BKE_lnor_space_custom_normal_to_data
  \/ call_BKE_lnor_space_custom_data_to_normal

\* C20: BKE_lnor_space_custom_normal_to_data returns the code (0,0) if and only if the
\* input normal is the space's lnor, or is the zero vector, or the space is degenerate
\* (ref_alpha or ref_beta zero); and BKE_lnor_space_custom_data_to_normal on the code
\* (0,0) returns the space's lnor.
C20_ZeroCodeIffLnorOrDegenerate ==
  /\ cpc \in {"decode", "done"} =>
       (codec_r_clnor_data = Pair(0, 0) <=>
          \/ codec_custom_lnor = codec_space.vec_lnor
          \/ codec_custom_lnor = <<0, 0, 0>>
          \/ codec_space.ref_alpha = 0
          \/ codec_space.ref_beta = 0)
  /\ (cpc = "done" /\ codec_clnor_data = Pair(0, 0)) => codec_r_custom_lnor = codec_space.vec_lnor

\* C21: when BKE_lnor_space_define rejects a space as degenerate (vec_ref or vec_other
\* parallel to lnor), the space ends with ref_alpha = ref_beta = 0 and with vec_lnor
\* equal to the normal passed in, so decoding any code in it returns that normal.
C21_DegenerateSpaceKeepsLnor ==
  LET lnor == space_args.lnor
      aligned(u) == /\ dot_v3v3(u, lnor) # 0
                    /\ dot_v3v3(u, lnor) * dot_v3v3(u, lnor) = dot_v3v3(u, u) * dot_v3v3(lnor, lnor)
  IN (cpc \in {"encode", "decode", "done"}
      /\ (aligned(space_args.vec_ref) \/ aligned(space_args.vec_other))) =>
       /\ codec_space.ref_alpha = 0
       /\ codec_space.ref_beta = 0
       /\ codec_space.vec_lnor = lnor
       /\ cpc = "done" => codec_r_custom_lnor = lnor

Init == InitAtomic /\ InitCalc /\ InitEnsure /\ InitSharp /\ InitSplit /\ InitCodec /\ InitCustom

InitAtomicRun ==
  InitAtomic /\ InitCalc /\ InitEnsureOf(0, 0) /\ InitSharp /\ InitSplit /\ InitCodec /\ InitCustom

SpecAtomic == InitAtomicRun /\ [][NextAtomic]_vars

\* Every thread that is inside add_v3_v3_atomic keeps being scheduled.
SpecAtomicFair ==
  /\ SpecAtomic
  /\ \A t \in Threads :
       WF_vars(\/ add_L65(t) \/ add_L70(t) \/ add_L76(t)
               \/ add_L77(t) \/ add_L78(t) \/ add_L84(t))

SpecEnsure == Init /\ [][NextEnsure]_vars

SpecEnsureSeq == Init /\ [][NextEnsureSeq]_vars

InitSharpRun ==
  InitAtomic /\ InitCalc /\ InitEnsureOf(0, 0) /\ InitSharp /\ InitSplit /\ InitCodec /\ InitCustom

SpecSharp == InitSharpRun /\ [][NextSharp]_vars

SpecSplit == InitSplitRun /\ [][NextSplit]_vars

SpecCodec == InitCodecRun /\ [][NextCodec]_vars

SpecUnsplit == InitUnsplitRun /\ [][NextUnsplit]_vars

SpecCustom == InitCustomRun /\ [][NextCustom]_vars

SpecFlags == (InitSharpRun \/ InitCustomRun) /\ [][NextFlags]_vars

SpecCalc == InitCalcRun /\ [][NextCalc]_vars

Next ==
  \/ NextFlags \/ NextCalc \/ NextAtomic \/ NextEnsure \/ NextSharp \/ NextSplit \/ NextCodec \/ NextUnsplit
  \/ NextCustom

Spec == Init /\ [][Next]_vars
====
